---- MODULE Spec2Model ----
(***************************************************************************)
(* Model of the mcp-moat content pipeline: the transcript summarizer       *)
(* (step02_transcript_summarizer.py) and the post generator                *)
(* (step05_generate_linkedin_post.py), their retrying remote invoker and   *)
(* their file-based completion ledger.                                     *)
(*                                                                         *)
(* Texts are sequences of tokens.  File names are kept structured: the     *)
(* name "<base>_part<N>.txt" is the record [base |-> base, part |-> N].    *)
(***************************************************************************)
EXTENDS FiniteSets, Integers, Sequences, TLC

(* ------------------------------ bounds -------------------------------- *)

\* chunk size passed to chunk_text (10000 in the code, scaled down)
ChunkSize == 2

\* number of runs of the script in one behaviour
MaxRuns == 2

\* longest response text handed to the response parser
MaxRespLen == 3

\* longest text handed to the splitter on its own
MaxTextLen == 5

\* largest chunk size handed to the splitter on its own
MaxChunkSize == 6

\* number of times the splitter is applied to one input
MaxSplits == 2

\* largest number of files in the folder handed to the rename stage on its own
MaxFiles == 3

\* longest base name of a source, in characters
MaxBaseLen == 3

\* number of calls made on one MCPClient object
MaxCalls == 5

\* longest response text handed to parse_linkedin_post, in pieces
MaxPieces == 3

\* chunk size of split_content in the research assistant (25000 in the
\* code, scaled down)
AssistantChunkSize == 3

(* ------------------------- program constants -------------------------- *)

request_delay == 2

retry_delay == 60

max_retries == 5

\* max_retries of process_all_youtube
youtube_max_retries == 4

\* get_perplexity_response(messages, max_retries=3)
perplexity_max_retries == 3

(* --------------------------- input folder ----------------------------- *)

Sources == {"talk", "memo"}

\* content of <source>.txt in the input folder
Content(s) ==
  IF s = "talk" THEN <<"a", "b", "c", "d", "e">> ELSE <<"f", "g", "h">>

Min(a, b) == IF a < b THEN a ELSE b

\* mutant: only the full windows are returned, a shorter tail is dropped
chunk_text_full_windows(t, size) ==
  [k \in 1..(Len(t) \div size) |-> SubSeq(t, (k - 1) * size + 1, k * size)]

\* mutant: every window after the first starts one character early
chunk_text_overlapping(t, size) ==
  LET starts == {j \in 0..(Len(t) - 1) : j % size = 0}
  IN  [k \in 1..Cardinality(starts) |->
         SubSeq(t, IF k = 1 THEN 1 ELSE (k - 1) * size,
                Min((k - 1) * size + size, Len(t)))]

\* [text[i:i + chunk_size] for i in range(0, len(text), chunk_size)]
chunk_text(text, chunk_size) ==
  LET starts == {i \in 0..(Len(text) - 1) : i % chunk_size = 0}
  IN  [k \in 1..Cardinality(starts) |->
         SubSeq(text, (k - 1) * chunk_size + 1,
                Min((k - 1) * chunk_size + chunk_size, Len(text)))]

Chunks(s) == chunk_text(Content(s), ChunkSize)

\* step02_research_assistant.split_content:
\* [content[i:i + chunk_size] for i in range(0, len(content), chunk_size)]
split_content(content, chunk_size) ==
  LET starts == {i \in 0..(Len(content) - 1) : i % chunk_size = 0}
  IN  [k \in 1..Cardinality(starts) |->
         SubSeq(content, (k - 1) * chunk_size + 1,
                Min((k - 1) * chunk_size + chunk_size, Len(content)))]

\* the characters of the texts handed to the splitter on its own
Chars == {"a", "b"}

RECURSIVE TextsUpTo(_)
TextsUpTo(n) ==
  IF n = 0 THEN {<<>>}
  ELSE LET shorter == TextsUpTo(n - 1)
       IN  shorter \cup {Append(t, c) : t \in {x \in shorter : Len(x) = n - 1}, c \in Chars}

\* every text of at most MaxTextLen characters
Texts == TextsUpTo(MaxTextLen)

\* the output file names the summarizer can produce, <base>_part<i>.txt
OutNames ==
  {n \in [base : Sources, part : 1..Len(Content("talk"))] :
     n.part <= Len(Chunks(n.base))}

OutName(b, k) == [base |-> b, part |-> k]

\* the serial numbers rename_files can hand out: one per file, and every run
\* of the summarizer can add a file per segment
MaxSerial == MaxRuns * Cardinality(OutNames)

\* the names rename_files produces, f"{serial_number:03d}-{base_name}"
SerialNames ==
  {n \in [serial : 1..MaxSerial, base : Sources, part : 1..Len(Content("talk"))] :
     n.part <= Len(Chunks(n.base))}

SerialName(k, n) ==
  IF "ext" \in DOMAIN n
  THEN [serial |-> k, base |-> n.base, part |-> n.part, ext |-> n.ext]
  ELSE [serial |-> k, base |-> n.base, part |-> n.part]

\* the .txt files a summary folder can hold
TxtNames == OutNames \cup SerialNames

\* the serial prefix of a file name, 0 when it has none
serial_of(n) == IF "serial" \in DOMAIN n THEN n.serial ELSE 0

\* re.sub(r'^\d+-', '', file)
strip_serial(n) ==
  IF "ext" \in DOMAIN n
  THEN [base |-> n.base, part |-> n.part, ext |-> n.ext]
  ELSE [base |-> n.base, part |-> n.part]

\* file.rsplit('_part', 1)[0]: what precedes the last _part, a serial
\* prefix included
rsplit_part(n) == [serial |-> serial_of(n), base |-> n.base]

\* os.path.splitext(f)[0] of the input file <source>.txt
source_base_name(s) == [serial |-> 0, base |-> s]

NoFile == [exists |-> FALSE]

(* ------------------------- response parsing --------------------------- *)

SummaryLabel == "Summary:"

TakeawaysLabel == "Key Takeaways:"

Tokens == {SummaryLabel, TakeawaysLabel, "w", " "}

RECURSIVE SeqsUpTo(_)
SeqsUpTo(n) ==
  IF n = 0 THEN {<<>>}
  ELSE LET shorter == SeqsUpTo(n - 1)
       IN  shorter \cup {Append(s, t) : s \in {x \in shorter : Len(x) = n - 1}, t \in Tokens}

\* every response text of at most MaxRespLen tokens
Responses == SeqsUpTo(MaxRespLen)

\* the response text the driver model draws from
SampleResponses ==
  { <<SummaryLabel, " ", "w", " ", TakeawaysLabel, " ", "w">>
  }

\* str.strip(): drop leading and trailing whitespace
RECURSIVE lstrip(_)
lstrip(s) == IF s # <<>> /\ Head(s) = " " THEN lstrip(Tail(s)) ELSE s

RECURSIVE rstrip(_)
rstrip(s) ==
  IF s # <<>> /\ s[Len(s)] = " " THEN rstrip(SubSeq(s, 1, Len(s) - 1)) ELSE s

strip(s) == rstrip(lstrip(s))

\* str.split(sep): the pieces between the occurrences of sep
RECURSIVE split(_, _)
split(s, sep) ==
  IF \E k \in 1..Len(s) : s[k] = sep
  THEN LET k == CHOOSE j \in 1..Len(s) :
                  s[j] = sep /\ \A m \in 1..(j - 1) : s[m] # sep
       IN  <<SubSeq(s, 1, k - 1)>> \o split(SubSeq(s, k + 1, Len(s)), sep)
  ELSE <<s>>

NoTakeaways == <<"No specific takeaways extracted.">>

\* generate_summary, the extraction of summary and takeaways from the
\* response content
extract_summary(content) ==
  LET full_response == strip(content)
      parts == split(full_response, SummaryLabel)
  IN  IF Len(parts) > 1
      THEN LET summary_parts == split(strip(parts[2]), TakeawaysLabel)
           IN  [summary |-> strip(summary_parts[1]),
                takeaways |-> IF Len(summary_parts) > 1
                              THEN strip(summary_parts[2]) ELSE <<>>]
      ELSE [summary |-> strip(full_response), takeaways |-> NoTakeaways]

(* --------------------------- remote endpoint -------------------------- *)

\* texts an HTTP 400 response can carry in its body
Bodies == { <<"invalid payload">>, <<"API quota exceeded">> }

\* what requests.post can come back with; status 0 stands for a
\* requests.exceptions.RequestException (no response at all)
Replies ==
  {[status |-> 200, choices |-> TRUE, text |-> t, body |-> <<>>] : t \in SampleResponses}
    \cup {[status |-> 200, choices |-> FALSE, text |-> <<>>, body |-> <<>>]}
    \cup {[status |-> c, choices |-> FALSE, text |-> <<>>, body |-> <<>>] : c \in {0, 429, 401, 402}}
    \cup {[status |-> 400, choices |-> FALSE, text |-> <<>>, body |-> b] : b \in Bodies}

NoError == <<>>

RateLimitError == <<"Rate limit exceeded">>

AuthError == <<"API", "authentication failed">>

RequestError == <<"Connection error">>

InvalidFormatError == <<"Invalid response format from API">>

\* the OSError / UnicodeDecodeError of open(file_path, 'r') and f.read()
ReadError == <<"[Errno 13] Permission denied">>

\* str.lower() on the tokens of a message
lower(msg) ==
  [k \in DOMAIN msg |->
     IF msg[k] = "API" THEN "api"
     ELSE IF msg[k] = "API quota exceeded" THEN "api quota exceeded"
     ELSE msg[k]]

\* phrase in msg
Contains(msg, phrase) == \E k \in DOMAIN msg : msg[k] = phrase

\* mutant: the sleep of the finally clause is made after a returned
\* response only
query_api_throttle_after_success(reply) ==
  LET raised ==
        IF reply.status = 0 THEN RequestError
        ELSE IF reply.status = 429 THEN RateLimitError
        ELSE IF reply.status = 401 THEN AuthError
        ELSE IF reply.status = 400 THEN <<"Bad request: ">> \o reply.body
        ELSE IF reply.status # 200
             THEN <<"API request failed with status code: ", ToString(reply.status)>>
        ELSE NoError
  IN  [raised |-> raised,
       waited |-> IF reply.status = 429 THEN retry_delay ELSE 0,
       throttle |-> IF reply.status = 200 THEN request_delay ELSE 0]

\* query_api: the exception raised for a reply (NoError when the JSON is
\* returned) and the sleeps made before control returns to the caller
query_api(reply) ==
  LET raised ==
        IF reply.status = 0 THEN RequestError
        ELSE IF reply.status = 429 THEN RateLimitError
        ELSE IF reply.status = 401 THEN AuthError
        ELSE IF reply.status = 400 THEN <<"Bad request: ">> \o reply.body
        ELSE IF reply.status # 200
             THEN <<"API request failed with status code: ", ToString(reply.status)>>
        ELSE NoError
  IN  [raised |-> raised,
       waited |-> IF reply.status = 429 THEN retry_delay ELSE 0,
       throttle |-> request_delay]

\* mutant: the test without lower(), looking for the capitalised phrase
is_authentication_failure_case_sensitive(e) == Contains(e, "Authentication Failed")

\* generate_summary, the test that re-raises without retrying
is_authentication_failure(e) == Contains(lower(e), "authentication failed")

\* generate_summary, sleep_time before the next attempt
sleep_time(count) == retry_delay * count

\* generate_summary, the error raised when the retry budget is used up
max_retries_error(last) == <<"Max retries reached. Last error: ">> \o last

\* mutant: every error of a chunk is re-raised
is_quota_exceeded_any_error(e) == e # NoError

\* process_transcript / process_all_transcripts, the test that stops the run
is_quota_exceeded(e) == Contains(e, "API quota exceeded")

(* -------------------- posts and their front matter --------------------- *)

\* the titles the endpoint gives its posts; the second reads "Update: News"
PostTitles == { <<"News">>, <<"Up", "date:", " ", "News">> }

\* the days and times of day datetime.now() can fall on
Days == {"2025-02-13", "2025-02-14"}

Times == {"10:00:00", "15:30:00"}

Whitespace == {" ", "\n"}

Quotes == {"\"", "'"}

\* str.strip(chars) for a set of characters
RECURSIVE strip_chars(_, _)
strip_chars(s, chars) ==
  IF s # <<>> /\ Head(s) \in chars THEN strip_chars(Tail(s), chars)
  ELSE IF s # <<>> /\ s[Len(s)] \in chars THEN strip_chars(SubSeq(s, 1, Len(s) - 1), chars)
  ELSE s

\* step05 format_jekyll_post: the front matter and the body of a post
format_jekyll_post(title, current_date) ==
  <<"---", "\n", "layout: post", "\n", "title:", " ", "\"">> \o title
    \o <<"\"", "\n", "date:", " ">> \o current_date
    \o <<"\n", "categories: ['general']", "\n", "---", "\n", "**">> \o title
    \o <<"**", "\n">>

TakeawaysHeading == "## Original Key Takeaways:"

\* step05 process_file_group: what is written to <base_name>.md
post_file(title, current_date) ==
  format_jekyll_post(title, current_date)
    \o <<"\n", "\n", "---", "\n", "\n", TakeawaysHeading, "\n", "\n", "takeaways", "\n">>

\* datetime.now().strftime('%Y-%m-%d %H:%M:%S +0900')
DateValue(day, time) == <<day, " ", time>>

\* re.split(r'\n---\s*\n+##\s*Original Key Takeaways:', content, maxsplit=1):
\* the positions where the separator starts
separator_starts(content) ==
  {k \in 1..Len(content) :
     /\ content[k] = "\n"
     /\ k + 1 <= Len(content) /\ content[k + 1] = "---"
     /\ \E m \in (k + 3)..Len(content) :
          /\ content[m] = TakeawaysHeading
          /\ content[m - 1] = "\n"
          /\ \A j \in (k + 2)..(m - 1) : content[j] \in Whitespace}

\* extract_pure_content: the content before the separator, stripped
extract_pure_content(content) ==
  IF separator_starts(content) # {}
  THEN LET k == CHOOSE j \in separator_starts(content) :
                  \A m \in separator_starts(content) : j <= m
       IN  strip_chars(SubSeq(content, 1, k - 1), Whitespace)
  ELSE strip_chars(content, Whitespace)

\* the longest run of whitespace that starts after position k
whitespace_run(content, k) ==
  CHOOSE w \in 0..(Len(content) - k) :
    /\ \A j \in (k + 1)..(k + w) : content[j] \in Whitespace
    /\ (k + w + 1 <= Len(content) => content[k + w + 1] \notin Whitespace)

\* the last position of the line that position j is on
line_end(content, j) ==
  CHOOSE e \in j..Len(content) :
    /\ \A m \in j..e : content[m] # "\n"
    /\ (e + 1 <= Len(content) => content[e + 1] = "\n")

NoMatch == [found |-> FALSE, from |-> 0, to |-> 0]

\* a match of r'key\s*(.+?)$' (re.MULTILINE) that starts at position k: the
\* whitespace is skipped greedily and given back as far as needed for the
\* group to start on a character that is not a newline; the group runs to
\* the end of its line
match_at(content, key, k) ==
  LET starts == {j \in (k + 1)..(k + 1 + whitespace_run(content, k)) :
                   j <= Len(content) /\ content[j] # "\n"}
  IN  IF content[k] # key \/ starts = {} THEN NoMatch
      ELSE LET j == CHOOSE x \in starts : \A y \in starts : y <= x
           IN  [found |-> TRUE, from |-> j, to |-> line_end(content, j)]

\* re.search: the leftmost match
re_search(content, key) ==
  LET at == {k \in 1..Len(content) : match_at(content, key, k).found}
  IN  IF at = {} THEN NoMatch
      ELSE match_at(content, key, CHOOSE k \in at : \A m \in at : k <= m)

\* extract_frontmatter_title: re.search(r'title:\s*["\']?(.*?)["\']?\s*$'),
\* group(1).strip('"\'')
extract_frontmatter_title(content) ==
  LET m == re_search(content, "title:")
  IN  IF m.found
      THEN strip_chars(strip_chars(SubSeq(content, m.from, m.to), Whitespace), Quotes)
      ELSE <<>>

\* extract_frontmatter_date: re.search(r'date:\s*(\d{4}-\d{2}-\d{2})'), the
\* day of the leftmost "date:" that is followed by one, today when none is
extract_frontmatter_date(content, today) ==
  LET at == {k \in 1..Len(content) :
               /\ content[k] = "date:"
               /\ \E j \in (k + 1)..(k + 1 + whitespace_run(content, k)) :
                    j <= Len(content) /\ content[j] \in Days}
  IN  IF at = {} THEN today
      ELSE LET k == CHOOSE x \in at : \A y \in at : x <= y
           IN  content[CHOOSE j \in (k + 1)..(k + 1 + whitespace_run(content, k)) :
                         j <= Len(content) /\ content[j] \in Days]

\* title.lower() and re.sub(r'[^\w\s-]', '', slug), token by token
slug_token(t) ==
  IF t = "News" THEN "news"
  ELSE IF t = "Up" THEN "up"
  ELSE IF t = "date:" THEN "date"
  ELSE IF t \in Quotes THEN ""
  ELSE t

\* re.sub(r'[-\s]+', '-', slug): a run of hyphens and whitespace becomes one
\* hyphen
RECURSIVE hyphenate(_)
hyphenate(s) ==
  IF s = <<>> THEN <<>>
  ELSE IF Head(s) = "" THEN hyphenate(Tail(s))
  ELSE IF Head(s) \in Whitespace \cup {"-"}
  THEN LET rest == hyphenate(Tail(s))
       IN  IF rest # <<>> /\ Head(rest) = "-" THEN rest ELSE <<"-">> \o rest
  ELSE <<Head(s)>> \o hyphenate(Tail(s))

\* generate_github_filename: f"{date_str}-{slug}.md"
generate_github_filename(original_filename, content, today) ==
  LET title == extract_frontmatter_title(content)
      named == IF title = <<>> THEN <<original_filename>> ELSE title
  IN  [day |-> extract_frontmatter_date(content, today),
       slug |-> strip_chars(hyphenate([k \in DOMAIN named |-> slug_token(named[k])]), {"-"})]

\* preserve_existing_date: re.search(r'date:\s*(.+?)$', existing_content)
\* and re.sub(r'(date:\s*)(.+?)$', r'\g<1>' + existing_date, new_content,
\* count=1), both re.MULTILINE
preserve_existing_date(new_content, existing_content) ==
  LET existing_date_match == re_search(existing_content, "date:")
      replaced == re_search(new_content, "date:")
  IN  IF existing_date_match.found /\ replaced.found
      THEN SubSeq(new_content, 1, replaced.from - 1)
             \o strip_chars(SubSeq(existing_content, existing_date_match.from,
                                   existing_date_match.to), Whitespace)
             \o SubSeq(new_content, replaced.to + 1, Len(new_content))
      ELSE new_content

(* ------------------- file names, character by character ----------------- *)

\* the characters of a base name: "a" stands for a letter, "part" for the
\* four letters of that word, which the patterns only match as a whole
NameChars == {"a", "1", "-", "_", "part", " "}

\* the base names of the sources, os.path.splitext(filename)[0]
BaseNames == UNION {[1..k -> NameChars] : k \in 1..MaxBaseLen}

\* the shorter base names, which a longer one can be cut down to
ShortNames == UNION {[1..k -> NameChars] : k \in 1..(MaxBaseLen - 1)}

Digits == <<"0", "1", "2", "3", "4", "5", "6", "7", "8", "9">>

IsDigit(c) == \E d \in 1..10 : Digits[d] = c

Separators == {"-", "_"}

\* the segment indices a source can have in the folder
PartSets == {{1}, {2, 10}}

\* f"{i}": the decimal digits of a number
RECURSIVE str(_)
str(n) ==
  IF n < 10 THEN <<Digits[n + 1]>>
  ELSE str(n \div 10) \o <<Digits[(n % 10) + 1]>>

\* int(match.group(1)): the number a run of decimal digits denotes
RECURSIVE int(_)
int(s) ==
  IF s = <<>> THEN 0
  ELSE 10 * int(SubSeq(s, 1, Len(s) - 1))
         + (CHOOSE d \in 0..9 : Digits[d + 1] = s[Len(s)])

\* f"{base_name}_part{i}.txt", the name the summarizer writes
part_file_name(b, n) == b \o <<"_", "part">> \o str(n) \o <<".", "txt">>

\* f"{serial_number:03d}-": the serial prefix of the rename stage
serial_prefix(serial_number) ==
  LET d == str(serial_number)
  IN  [k \in 1..(3 - Min(3, Len(d))) |-> "0"] \o d \o <<"-">>

\* os.path.splitext(filename)[0]: the name up to its last dot, the whole
\* name when only dots precede that dot
splitext(filename) ==
  LET dots == {k \in 1..Len(filename) : filename[k] = "."}
  IN  IF dots = {} THEN filename
      ELSE LET last == CHOOSE k \in dots : \A m \in dots : m <= k
           IN  IF \A k \in 1..(last - 1) : filename[k] = "." THEN filename
               ELSE SubSeq(filename, 1, last - 1)

\* the position after the longest run of digits that starts at position k
digits_end(s, k) ==
  CHOOSE e \in k..(Len(s) + 1) :
    /\ \A j \in k..(e - 1) : IsDigit(s[j])
    /\ (e <= Len(s) => ~IsDigit(s[e]))

\* re.sub(r'^\d+-', '', name): a leading run of digits and the hyphen after
\* it are dropped
sub_serial_prefix(name) ==
  LET e == digits_end(name, 1)
  IN  IF e > 1 /\ e <= Len(name) /\ name[e] = "-"
      THEN SubSeq(name, e + 1, Len(name))
      ELSE name

\* the first position of the longest run of characters of a set that ends
\* before position k
run_start(s, chars, k) ==
  CHOOSE b \in 1..k :
    /\ \A j \in b..(k - 1) : s[j] \in chars
    /\ (b > 1 => s[b - 1] \notin chars)

\* re.sub(r'\s*[-_]+part\d+$', '', name): the name must end with digits
\* that follow "part" and at least one separator; the match starts at the
\* whitespace before the separators
sub_part_suffix(name) ==
  LET ends == {t \in 3..Len(name) :
                 /\ \A j \in t..Len(name) : IsDigit(name[j])
                 /\ name[t - 1] = "part"
                 /\ name[t - 2] \in Separators}
  IN  IF ends = {} THEN name
      ELSE LET t == CHOOSE x \in ends : TRUE
               p == run_start(name, Separators, t - 1)
               w == run_start(name, {" "}, p)
           IN  SubSeq(name, 1, w - 1)

\* get_base_name: the extension, the serial prefix and the part suffix are
\* removed, in this order
get_base_name(filename) ==
  sub_part_suffix(sub_serial_prefix(splitext(filename)))

\* get_part_number: re.search(r'[-_]+part(\d+)', filename), the leftmost
\* "part" that follows a separator and is followed by a digit; 0 without one
get_part_number(filename) ==
  LET at == {q \in 2..(Len(filename) - 1) :
               /\ filename[q] = "part"
               /\ filename[q - 1] \in Separators
               /\ IsDigit(filename[q + 1])}
  IN  IF at = {} THEN 0
      ELSE LET q == CHOOSE x \in at : \A y \in at : x <= y
           IN  int(SubSeq(filename, q + 1, digits_end(filename, q + 1) - 1))

\* file_groups[base_name].sort(key=lambda x: x['part_number']): the sort is
\* stable, so files with equal part numbers keep the order of os.listdir,
\* which is arbitrary
RECURSIVE sorted_by_part_number(_)
sorted_by_part_number(S) ==
  IF S = {} THEN {<<>>}
  ELSE UNION {{<<x>> \o t : t \in sorted_by_part_number(S \ {x})} :
                x \in {y \in S : \A z \in S :
                         get_part_number(y) <= get_part_number(z)}}

\* the groups group_files_by_base_name can return for the files of a folder
file_groups_of(files) ==
  LET bases == {get_base_name(f) : f \in files}
      members(b) == {f \in files : get_base_name(f) = b}
  IN  {g \in [bases -> UNION {sorted_by_part_number(members(b)) : b \in bases}] :
         \A b \in bases : g[b] \in sorted_by_part_number(members(b))}

(* ------------------------ responses of the post model ------------------- *)

required_fields ==
  {"PostTitle", "Categories", "CatchyIntro", "PostContent", "EndingThoughtsAndQuestion"}

\* what json.loads can return: an object with some of the fields, or a
\* value that is no object
JsonValues ==
  {[kind |-> "object", fields |-> S] : S \in SUBSET required_fields}
    \cup {[kind |-> k, fields |-> {}] : k \in {"list", "string", "number", "null"}}

\* the pieces of a response text: a JSON value, prose, whitespace, the
\* opening of a json code fence, and three backticks
Prose == [kind |-> "prose", fields |-> {}]

Blank == [kind |-> "whitespace", fields |-> {}]

FenceJson == [kind |-> "fence_json", fields |-> {}]

Fence == [kind |-> "fence", fields |-> {}]

ResponsePieces == JsonValues \cup {Prose, Blank, FenceJson, Fence}

\* the response texts handed to parse_linkedin_post
ResponseTexts == UNION {[1..k -> ResponsePieces] : k \in 0..MaxPieces}

\* str.strip(): leading and trailing whitespace is dropped
RECURSIVE strip_blank(_)
strip_blank(text) ==
  IF text = <<>> THEN text
  ELSE IF Head(text).kind = "whitespace" THEN strip_blank(Tail(text))
  ELSE IF text[Len(text)].kind = "whitespace"
       THEN strip_blank(SubSeq(text, 1, Len(text) - 1))
  ELSE text

JSONDecodeError == [kind |-> "JSONDecodeError", fields |-> {}]

\* json.loads: the text must be one JSON value and nothing else
json_loads(text) ==
  IF Len(text) = 1 /\ text[1] \in JsonValues THEN text[1] ELSE JSONDecodeError

\* re.search(r'```json\s*(.*?)\s*```', response_text, re.DOTALL): group 1
\* of the leftmost match, from the first opening of a json fence to the
\* next three backticks (those of another opening included), without the
\* whitespace around it
json_match(text) ==
  LET opens == {a \in 1..Len(text) :
                  /\ text[a].kind = "fence_json"
                  /\ \E b \in (a + 1)..Len(text) : text[b].kind \in {"fence", "fence_json"}}
  IN  IF opens = {} THEN [found |-> FALSE, group |-> <<>>]
      ELSE LET a == CHOOSE x \in opens : \A y \in opens : x <= y
               b == CHOOSE x \in (a + 1)..Len(text) :
                      /\ text[x].kind \in {"fence", "fence_json"}
                      /\ \A y \in (a + 1)..(x - 1) : text[y].kind \notin {"fence", "fence_json"}
           IN  [found |-> TRUE, group |-> strip_blank(SubSeq(text, a + 1, b - 1))]

\* the dict returned when all parsing fails
ErrorSections == [kind |-> "object", fields |-> required_fields]

\* parse_linkedin_post: what is returned, or the exception that leaves the
\* function. Filling in the missing fields fails with a TypeError on a
\* value that is no object
parse_linkedin_post(response_text) ==
  LET sections == json_loads(strip_blank(response_text))
  IN  IF sections.kind = "object"
      THEN [raised |-> "none",
            sections |-> [sections EXCEPT !.fields = @ \cup required_fields]]
      ELSE IF sections.kind # "JSONDecodeError"
      THEN [raised |-> "TypeError", sections |-> sections]
      ELSE LET m == json_match(response_text)
               inner == json_loads(strip_blank(m.group))
           IN  IF m.found /\ inner.kind # "JSONDecodeError"
               THEN [raised |-> "none", sections |-> inner]
               ELSE [raised |-> "none", sections |-> ErrorSections]

\* format_jekyll_post: the exception it ends with, "none" when it returns
\* the post. sections.get needs a dict; every field but Categories is
\* read with sections[...]
format_jekyll_post_raises(sections) ==
  IF sections.kind # "object" THEN "AttributeError"
  ELSE IF (required_fields \ {"Categories"}) \subseteq sections.fields THEN "none"
  ELSE "KeyError"

(* ------------------------------- state -------------------------------- *)

\* the scripts of the pipeline that call the remote endpoint
Scripts == {"summarizer", "post"}

\* the posts step05 can write: <base_name>.md and merged-final-post.md
MergedPost == "merged-final-post"

\* the file groups in the input folder of the post generator: the takeaways
\* of the sources and of one more document
Groups == Sources \cup {"note"}

PostNames == {[base |-> b, part |-> 0] : b \in Groups \cup {MergedPost}}

PostName(b) == [base |-> b, part |-> 0]

AllNames == TxtNames \cup PostNames

VARIABLES
  script,            \* the script the operator runs in this behaviour
  output_folder,     \* output file name -> file content, NoFile when absent
  run,               \* number of runs of the script started so far
  pc,                \* position of the running process, "idle" when none runs
  transcript_files,  \* process_all_transcripts: sources still to process
  transcript_file,   \* process_transcript: the source being processed
  i,                 \* process_transcript: 1-based chunk index
  result,            \* process_transcript: what generate_summary returned
  unprocessed_groups, \* process_all_files: file groups still to process
  base_name,         \* process_file_group: the group being processed
  linkedin_post_raw, \* what generate_linkedin_post returned
  retry_count,       \* generate_summary / generate_linkedin_post
  last_error,        \* generate_summary / generate_linkedin_post
  exc,               \* the exception being propagated, NoError when none
  called,            \* history: output names a remote call was issued for in this run
  attempts,          \* history: remote calls issued for the current request
  delays,            \* history: the waits before each retry of the current request
  last_reply,        \* history: the latest reply to the current request
  last_signal,       \* history: the fatal signals of the latest reply in this run
  startdir,          \* history: output_folder when the current run started
  succeeded,         \* history: names whose request returned a result in this run
  inflight,          \* history: the name between its success and the end of its write
  transient_only,    \* history: every failure of the current request was a 429 or a request error
  exit,              \* history: how the latest run ended, "none" while it runs
  text,              \* the splitter on its own: the text to split
  chunk_size,        \* the splitter on its own: the chunk size
  chunks,            \* the splitter on its own: the list it returned last
  previous_chunks,   \* history: the list it returned the time before
  splits,            \* history: number of times the splitter was applied
  peer,              \* a second invocation of the summarizer on the same folders
  elapsed,           \* history: time slept since the latest remote call of this run was answered
  publisher,         \* step06: the locals of process_all_files and push_file_to_github
  repo,              \* step06: the remote repository, path -> file
  transcriber,       \* step01: the locals of process_all_youtube and its history
  renamer,           \* step03 on its own: the folder, and its history
  grouper,           \* step05's grouping on its own: the files and their groups
  assistant,         \* step02_research_assistant on its own
  parser,            \* parse_linkedin_post on its own: the response and what became of it
  client             \* an MCPClient object and the history of its calls

vars ==
  <<script, output_folder, run, pc, transcript_files, transcript_file, i, result,
    unprocessed_groups, base_name, linkedin_post_raw, retry_count, last_error,
    exc, called, attempts, delays, last_reply, last_signal, startdir, succeeded,
    inflight, transient_only, exit, text, chunk_size, chunks, previous_chunks, splits,
    peer, elapsed, publisher, repo, transcriber, renamer, grouper,
    assistant, parser, client>>

\* the state of the stages modelled on their own
sideVars == <<publisher, repo, transcriber, renamer, grouper, assistant, parser, client>>

\* the state of the splitter on its own
splitVars == <<text, chunk_size, chunks, previous_chunks, splits>>

\* the loop variables of the summarizer
sumVars == <<transcript_files, transcript_file, i, result>>

\* the loop variables of the post generator
postVars == <<unprocessed_groups, base_name, linkedin_post_raw>>

\* the retry state of the invoker
retryVars == <<retry_count, last_error>>

\* the history of the current request
reqHist == <<attempts, delays, last_reply, transient_only>>

\* the history of the current run
runHist == <<called, last_signal, startdir, succeeded, inflight, elapsed>>

NoName == [base |-> "", part |-> -1]

NoResult == [summary |-> <<>>, takeaways |-> <<>>]

NoReply == [status |-> -1, choices |-> FALSE, text |-> <<>>, body |-> <<>>]

\* the second invocation before it is started: its position, the locals of
\* process_all_transcripts and process_transcript, and the history of the
\* names it called the endpoint for and wrote
NoPeer ==
  [pc |-> "idle", started |-> FALSE, transcript_files |-> <<>>, transcript_file |-> "",
   i |-> 0, result |-> NoResult, called |-> {}, wrote |-> {}]

\* the posts of the input folder of the publisher: <base_name>.md as step05
\* wrote it at some time, with the title the endpoint gave it
TitleOf(g) == IF g = "talk" THEN <<"News">> ELSE <<"Up", "date:", " ", "News">>

LocalFiles ==
  {[filename |-> g, content |-> post_file(TitleOf(g), DateValue(d, t))] :
     g \in Sources, d \in Days, t \in Times}

\* the remote paths f"{remote_dir}/{github_filename}" of these posts
RemotePaths ==
  {generate_github_filename(f.filename, f.content, d) : f \in LocalFiles, d \in Days}

\* the remote repository before anything is pushed
EmptyRepo == [path \in RemotePaths |-> NoFile]

NoLocalFile == [filename |-> "", content |-> <<>>]

NoPath == [day |-> "", slug |-> <<>>]

\* the publisher before it is started: its position, the locals of
\* process_all_files and push_file_to_github, and the run counter
NoPublisher ==
  [pc |-> "idle", run |-> 0, files_to_process |-> <<>>, file_info |-> NoLocalFile,
   remote_path |-> NoPath, pure_content |-> <<>>, existing_sha |-> <<>>,
   successful |-> 0, failed |-> 0]

\* the videos the *_yt.txt files of the source folder list, in the order of
\* all_videos
Videos == <<"intro", "demo">>

\* ProgressTracker.__init__: the counters of a new tracker
ProgressTracker(total_items) ==
  [total_items |-> total_items, current_item |-> 0, successful |-> 0, failed |-> 0]

\* ProgressTracker.start_item(item_name), called without an item_num
start_item(tracker) == [tracker EXCEPT !.current_item = @ + 1]

\* ProgressTracker.complete_item(item_name, success)
complete_item(tracker, success) ==
  IF success THEN [tracker EXCEPT !.successful = @ + 1]
  ELSE [tracker EXCEPT !.failed = @ + 1]

\* the transcriber before it is started: its position, the locals of
\* process_all_youtube, the transcripts saved, the history of the run, and
\* the counters of its progress tracker (there is no tracker before the
\* start; none is looked at then)
NoTranscriber ==
  [pc |-> "idle", retry_round |-> 0,
   status |-> [k \in DOMAIN Videos |-> "pending"],
   failed_videos |-> <<>>,
   saved |-> {},
   fetches |-> [k \in DOMAIN Videos |-> 0],
   answer |-> [k \in DOMAIN Videos |-> "none"],
   pending_at_start |-> {},
   attempted |-> {},
   progress_tracker |-> ProgressTracker(0)]

\* the part numbers of the files handed to the rename stage on its own
RenameParts == {2, 10}

\* the .txt and .md files a folder handed to the rename stage can hold:
\* <base>_part<N>.txt and <base>_part<N>.md, each with or without a serial
\* prefix; a record without the field ext is a .txt file
RenameNames ==
  LET plain == [base : Sources, part : RenameParts]
      md == [base : Sources, part : RenameParts, ext : {"md"}]
  IN  plain \cup md
        \cup {SerialName(k, n) : k \in 1..MaxFiles, n \in plain \cup md}

\* a file of that folder; it remembers the name it had before the stage ran
OriginalFile(n) == [exists |-> TRUE, was |-> n]

\* the sets of at most k of these names
RECURSIVE NameSetsUpTo(_)
NameSetsUpTo(k) ==
  IF k = 0 THEN {{}}
  ELSE LET smaller == NameSetsUpTo(k - 1)
       IN  smaller \cup {S \cup {n} : S \in smaller, n \in RenameNames}

\* the folders of at most MaxFiles such files
RenameFolders ==
  {[n \in RenameNames |-> IF n \in S THEN OriginalFile(n) ELSE NoFile] :
     S \in NameSetsUpTo(MaxFiles)}

\* the rename stage before it is handed a folder
NoRenamer == [folder |-> <<>>, start |-> <<>>, first |-> <<>>, runs |-> 0]

\* the grouping of the post generator is not being looked at
NoGrouper == [pc |-> "off", written |-> {}, file_groups |-> <<>>]

\* the research assistant is not being looked at
NoAssistant ==
  [pc |-> "off", files |-> <<>>, filename |-> "", i |-> 0, attempt |-> 0, result |-> "none",
   output_dir |-> {}, responded |-> {}, exhausted |-> {}]

\* parse_linkedin_post is not being looked at
NoParser == [pc |-> "off", response_text |-> <<>>, raised |-> "none", sections |-> ErrorSections]

\* no MCPClient object is being looked at
NoClient ==
  [pc |-> "off", session |-> "None", open |-> FALSE, calls |-> 0,
   last_call |-> "none", had_session |-> FALSE, delegated |-> FALSE, ended |-> "none"]

\* the file right after open(output_file, 'w')
EmptyFile(r) == [exists |-> TRUE, generated |-> r, complete |-> FALSE]

\* the summary file after the last f.write
WrittenFile(r, res, chunk) ==
  [exists |-> TRUE, generated |-> r, complete |-> TRUE,
   summary |-> res.summary, takeaways |-> res.takeaways, chunk |-> chunk]

\* the post file after the last f.write
WrittenPost(r, post) ==
  [exists |-> TRUE, generated |-> r, complete |-> TRUE, post |-> post]

\* mutant: the ledger looks into a folder that holds no output
Exists_in_other_folder(dir, n) == FALSE

\* os.path.exists(file) / file in os.listdir(folder)
Exists(dir, n) == dir[n].exists

\* f"{base_name}_part{i}.txt" of the chunk being processed
Current == OutName(transcript_file, i)

\* output_file of the chunk the second invocation is processing
PeerCurrent == OutName(peer.transcript_file, peer.i)

\* the orders os.listdir can give the entries in
Orderings(S) ==
  {f \in [1..Cardinality(S) -> S] : \A a, b \in DOMAIN f : a # b => f[a] # f[b]}

Init ==
  /\ script \in Scripts
  /\ output_folder = [n \in AllNames |-> NoFile]
  /\ run = 0
  /\ pc = "idle"
  /\ transcript_files = <<>>
  /\ transcript_file = ""
  /\ i = 0
  /\ result = NoResult
  /\ unprocessed_groups = <<>>
  /\ base_name = ""
  /\ linkedin_post_raw = <<>>
  /\ retry_count = 0
  /\ last_error = NoError
  /\ exc = NoError
  /\ called = {}
  /\ attempts = 0
  /\ delays = <<>>
  /\ last_reply = NoReply
  /\ last_signal = {}
  /\ startdir = [n \in AllNames |-> NoFile]
  /\ succeeded = {}
  /\ inflight = NoName
  /\ transient_only = TRUE
  /\ exit = "none"
  /\ text = <<>>
  /\ chunk_size = ChunkSize
  /\ chunks = <<>>
  /\ previous_chunks = <<>>
  /\ splits = 0
  /\ peer = NoPeer
  /\ elapsed = 0
  /\ publisher = NoPublisher
  /\ repo = EmptyRepo
  /\ transcriber = NoTranscriber
  /\ renamer = NoRenamer
  /\ assistant = NoAssistant
  /\ parser = NoParser
  /\ client = NoClient
  /\ grouper = NoGrouper

\* the process is gone: nothing of its memory is left
ClearMemory ==
  /\ transcript_files' = <<>>
  /\ transcript_file' = ""
  /\ i' = 0
  /\ result' = NoResult
  /\ unprocessed_groups' = <<>>
  /\ base_name' = ""
  /\ linkedin_post_raw' = <<>>
  /\ exc' = NoError

\* the retry state of the invoker and its history go with the request
ClearRequest ==
  /\ retry_count' = 0
  /\ last_error' = NoError
  /\ attempts' = 0
  /\ delays' = <<>>
  /\ last_reply' = NoReply
  /\ transient_only' = TRUE

\* a run starts: the history of the run is empty
StartHistory ==
  /\ called' = {}
  /\ last_signal' = {}
  /\ startdir' = output_folder
  /\ succeeded' = {}
  /\ inflight' = NoName
  /\ elapsed' = 0

(* ----------------------------- the ledger ----------------------------- *)

\* get_processed_files: file.rsplit('_part', 1)[0] of every .txt output
get_processed_files(dir) == {rsplit_part(n) : n \in {m \in TxtNames : Exists(dir, m)}}

\* get_transcript_files: the sources whose base name is not in the set
get_transcript_files(dir) ==
  {s \in Sources : source_base_name(s) \notin get_processed_files(dir)}

\* mutant: a part another invocation is working on counts as existing
part_exists_or_claimed(dir, n) ==
  \/ Exists(dir, n)
  \/ pc \in {"call", "open", "write"} /\ Current = n
  \/ peer.pc \in {"call", "open", "write"} /\ PeerCurrent = n

\* process_transcript: os.path.exists(output_file)
part_exists(dir, n) == Exists(dir, n)

\* get_unprocessed_file_groups: the groups with no <base_name>.md output
get_unprocessed_file_groups(dir) ==
  LET processed_files == {n.base : n \in {m \in PostNames : Exists(dir, m)}}
  IN  {g \in Groups : g \notin processed_files}

\* get_all_generated_posts: the .md outputs other than merged-final-post.md
get_all_generated_posts(dir) ==
  {n \in PostNames : Exists(dir, n) /\ n.base # MergedPost}

(* --------------------------- the remote invoker ------------------------ *)

FatalSignals(reply) ==
  (IF reply.status = 401 THEN {"auth"} ELSE {})
    \cup (IF reply.status = 402 \/ Contains(reply.body, "API quota exceeded")
          THEN {"quota"} ELSE {})

\* the error a pass of the retry loop ends with, NoError when it returns
attempt_error(reply) ==
  IF query_api(reply).raised # NoError THEN query_api(reply).raised
  ELSE IF ~reply.choices THEN InvalidFormatError
  ELSE NoError

\* history of a remote call for output name n answered with reply
RecordCall(n, reply) ==
  /\ attempts' = attempts + 1
  /\ called' = called \cup {n}
  /\ last_reply' = reply
  /\ last_signal' = FatalSignals(reply)
  /\ transient_only' =
       (transient_only /\ (attempt_error(reply) # NoError => reply.status \in {0, 429}))

\* the except clause of the retry loop: re-raise an authentication failure,
\* sleep and go round again, or raise when the budget is used up
except_clause(e, waited, throttle, loop_pc, raise_pc) ==
  /\ last_error' = e
  /\ retry_count' = retry_count + 1
  /\ IF is_authentication_failure(e)
     THEN /\ exc' = e
          /\ pc' = raise_pc
          /\ elapsed' = waited + throttle
          /\ UNCHANGED delays
     ELSE IF retry_count + 1 < max_retries
     THEN /\ delays' = Append(delays, [waited |-> waited, backoff |-> sleep_time(retry_count + 1)])
          /\ pc' = loop_pc
          /\ elapsed' = waited + throttle + sleep_time(retry_count + 1)
          /\ UNCHANGED exc
     ELSE /\ exc' = max_retries_error(e)
          /\ pc' = raise_pc
          /\ elapsed' = waited + throttle
          /\ UNCHANGED delays

\* one pass of the while loop of generate_summary: the call of query_api,
\* answered with one of replies, and either the return of the parsed result
\* or the except clause
generate_summary_pass(replies) ==
  /\ pc = "call"
  /\ \E reply \in replies :
       /\ RecordCall(Current, reply)
       /\ IF attempt_error(reply) = NoError
          THEN /\ result' = extract_summary(reply.text)
               /\ pc' = "open"
               /\ succeeded' = succeeded \cup {Current}
               /\ inflight' = Current
               /\ elapsed' = query_api(reply).waited + query_api(reply).throttle
               /\ UNCHANGED <<retryVars, exc, delays>>
          ELSE /\ except_clause(attempt_error(reply), query_api(reply).waited,
                                query_api(reply).throttle, "call", "except_chunk")
               /\ UNCHANGED <<result, succeeded, inflight>>
  /\ UNCHANGED <<sideVars, peer, splitVars, script, output_folder, run, transcript_files, transcript_file, i, postVars, startdir, exit>>

generate_summary == generate_summary_pass(Replies)

\* the post the request of the post generator is for
CurrentPost == PostName(IF pc \in {"post_call", "post_open", "post_write"} THEN base_name ELSE MergedPost)

\* one pass of the while loop of generate_linkedin_post, called for a file
\* group by process_file_group and for the merged post by
\* generate_merged_final_post
generate_linkedin_post ==
  /\ pc \in {"post_call", "merge_call"}
  /\ \E reply \in Replies :
       /\ RecordCall(CurrentPost, reply)
       /\ IF attempt_error(reply) = NoError
          THEN /\ linkedin_post_raw' = strip(reply.text)
               /\ pc' = IF pc = "post_call" THEN "post_open" ELSE "merge_open"
               /\ succeeded' = succeeded \cup {CurrentPost}
               /\ inflight' = CurrentPost
               /\ elapsed' = query_api(reply).waited + query_api(reply).throttle
               /\ UNCHANGED <<retryVars, exc, delays>>
          ELSE /\ except_clause(attempt_error(reply), query_api(reply).waited,
                                query_api(reply).throttle, pc,
                                IF pc = "post_call" THEN "post_except" ELSE "merge_except")
               /\ UNCHANGED <<linkedin_post_raw, succeeded, inflight>>
  /\ UNCHANGED <<sideVars, peer, splitVars, script, output_folder, run, sumVars, unprocessed_groups, base_name, startdir, exit>>

(* ------------------------ process_all_transcripts --------------------- *)

\* a run of the summarizer starts: setup_folders, get_transcript_files, and
\* the return when nothing is left to process
process_all_transcripts_start ==
  /\ script = "summarizer"
  /\ pc = "idle"
  /\ run < MaxRuns
  /\ run' = run + 1
  /\ \E order \in Orderings(get_transcript_files(output_folder)) :
       /\ transcript_files' = order
       /\ pc' = IF order = <<>> THEN "idle" ELSE "next_file"
       /\ exit' = IF order = <<>> THEN "returned" ELSE "none"
  /\ StartHistory
  /\ UNCHANGED <<sideVars, peer, splitVars, script, output_folder, transcript_file, i, result, postVars, retryVars, exc, reqHist>>

\* for transcript_file in transcript_files: enter process_transcript
process_all_transcripts_next ==
  /\ pc = "next_file"
  /\ transcript_files # <<>>
  /\ transcript_file' = Head(transcript_files)
  /\ transcript_files' = Tail(transcript_files)
  /\ i' = 1
  /\ pc' = "chunk"
  /\ UNCHANGED <<sideVars, peer, splitVars, script, output_folder, run, result, postVars, retryVars, exc, reqHist, runHist, exit>>

\* the loop is over: progress_tracker.finish() and the script exits
process_all_transcripts_finish ==
  /\ pc = "next_file"
  /\ transcript_files = <<>>
  /\ pc' = "idle"
  /\ exit' = "returned"
  /\ ClearMemory
  /\ UNCHANGED <<sideVars, peer, splitVars, script, output_folder, run, retryVars, reqHist, runHist>>

\* except Exception in the loop of process_all_transcripts
process_all_transcripts_except ==
  /\ pc = "except_file"
  /\ IF is_quota_exceeded(exc)
     THEN /\ pc' = "idle"
          /\ exit' = "stopped"
          /\ ClearMemory
     ELSE /\ pc' = "next_file"
          /\ exc' = NoError
          /\ UNCHANGED <<sumVars, postVars, exit>>
  /\ UNCHANGED <<sideVars, peer, splitVars, script, output_folder, run, retryVars, reqHist, runHist>>

(* --------------------------- process_transcript ----------------------- *)

\* for i, chunk in enumerate(chunks, 1): the end of the loop, the skip of a
\* part that exists, or the start of generate_summary for the chunk
process_transcript_chunk ==
  /\ pc = "chunk"
  /\ IF i > Len(Chunks(transcript_file))
     THEN /\ pc' = "next_file"
          /\ UNCHANGED i
     ELSE IF part_exists(output_folder, Current)
     THEN /\ i' = i + 1
          /\ UNCHANGED pc
     ELSE /\ pc' = "call"
          /\ UNCHANGED i
  /\ UNCHANGED <<sideVars, peer, splitVars, script, output_folder, run, transcript_files, transcript_file, result,
                 postVars, retryVars, exc, reqHist, runHist, exit>>

\* with open(output_file, 'w'): the file is created empty
process_transcript_open ==
  /\ pc = "open"
  /\ output_folder' = [output_folder EXCEPT ![Current] = EmptyFile(run)]
  /\ pc' = "write"
  /\ UNCHANGED <<sideVars, peer, splitVars, script, run, sumVars, postVars, retryVars, exc, reqHist, runHist, exit>>

\* mutant: the loop goes on with the next chunk while the text written
\* is still in the buffer of the open file
process_transcript_write_unflushed ==
  /\ pc = "write"
  /\ inflight' = NoName
  /\ i' = i + 1
  /\ result' = NoResult
  /\ pc' = "chunk"
  /\ ClearRequest
  /\ UNCHANGED <<sideVars, peer, splitVars, script, output_folder, run, transcript_files, transcript_file, postVars,
                 exc, called, last_signal, startdir, succeeded, elapsed, exit>>

\* the f.write calls and the close of the file, then the next chunk
process_transcript_write ==
  /\ pc = "write"
  /\ output_folder' =
       [output_folder EXCEPT ![Current] =
          WrittenFile(run, result, Chunks(transcript_file)[i])]
  /\ inflight' = NoName
  /\ i' = i + 1
  /\ result' = NoResult
  /\ pc' = "chunk"
  /\ ClearRequest
  /\ UNCHANGED <<sideVars, peer, splitVars, script, run, transcript_files, transcript_file, postVars, exc,
                 called, last_signal, startdir, succeeded, elapsed, exit>>

\* except Exception in the chunk loop of process_transcript
process_transcript_except ==
  /\ pc = "except_chunk"
  /\ IF is_quota_exceeded(exc)
     THEN /\ pc' = "except_file"
          /\ UNCHANGED <<i, exc>>
     ELSE /\ pc' = "chunk"
          /\ i' = i + 1
          /\ exc' = NoError
  /\ ClearRequest
  /\ UNCHANGED <<sideVars, peer, splitVars, script, output_folder, run, transcript_files, transcript_file, result,
                 postVars, runHist, exit>>

(* ---------------------------- process_all_files ------------------------ *)

\* a run of the post generator starts: setup_folders,
\* get_unprocessed_file_groups, and the return when no group is left
process_all_files_start ==
  /\ script = "post"
  /\ pc = "idle"
  /\ run < MaxRuns
  /\ run' = run + 1
  /\ \E order \in Orderings(get_unprocessed_file_groups(output_folder)) :
       /\ unprocessed_groups' = order
       /\ pc' = IF order = <<>> THEN "idle" ELSE "post_next"
       /\ exit' = IF order = <<>> THEN "returned" ELSE "none"
  /\ StartHistory
  /\ UNCHANGED <<sideVars, peer, splitVars, script, output_folder, sumVars, base_name, linkedin_post_raw, retryVars, exc, reqHist>>

\* for base_name, file_list in unprocessed_groups.items(): process_file_group
\* up to its call of generate_linkedin_post
process_all_files_next ==
  /\ pc = "post_next"
  /\ unprocessed_groups # <<>>
  /\ base_name' = Head(unprocessed_groups)
  /\ unprocessed_groups' = Tail(unprocessed_groups)
  /\ pc' = "post_call"
  /\ UNCHANGED <<sideVars, peer, splitVars, script, output_folder, run, sumVars, linkedin_post_raw, retryVars, exc,
                 reqHist, runHist, exit>>

\* process_file_group: with open(output_file, 'w') of <base_name>.md
process_file_group_open ==
  /\ pc = "post_open"
  /\ output_folder' = [output_folder EXCEPT ![PostName(base_name)] = EmptyFile(run)]
  /\ pc' = "post_write"
  /\ UNCHANGED <<sideVars, peer, splitVars, script, run, sumVars, postVars, retryVars, exc, reqHist, runHist, exit>>

\* process_file_group: the f.write calls, return True, complete_item
process_file_group_write ==
  /\ pc = "post_write"
  /\ output_folder' =
       [output_folder EXCEPT ![PostName(base_name)] = WrittenPost(run, linkedin_post_raw)]
  /\ inflight' = NoName
  /\ linkedin_post_raw' = <<>>
  /\ pc' = "post_next"
  /\ ClearRequest
  /\ UNCHANGED <<sideVars, peer, splitVars, script, run, sumVars, unprocessed_groups, base_name, exc,
                 called, last_signal, startdir, succeeded, elapsed, exit>>

\* except Exception in the loop of process_all_files: stop on a quota
\* error, go on with the next group otherwise
process_all_files_except ==
  /\ pc = "post_except"
  /\ pc' = IF is_quota_exceeded(exc) THEN "merge" ELSE "post_next"
  /\ exc' = NoError
  /\ ClearRequest
  /\ UNCHANGED <<sideVars, peer, splitVars, script, output_folder, run, sumVars, postVars, runHist, exit>>

\* the loop is over: progress_tracker.finish(), then
\* generate_merged_final_post
process_all_files_finish ==
  /\ pc = "post_next"
  /\ unprocessed_groups = <<>>
  /\ pc' = "merge"
  /\ UNCHANGED <<sideVars, peer, splitVars, script, output_folder, run, sumVars, postVars, retryVars, exc,
                 reqHist, runHist, exit>>

\* generate_merged_final_post: nothing to merge with at most one post,
\* generate_linkedin_post for the combined posts otherwise
generate_merged_final_post ==
  /\ pc = "merge"
  /\ IF Cardinality(get_all_generated_posts(output_folder)) <= 1
     THEN /\ pc' = "idle"
          /\ exit' = "returned"
          /\ ClearMemory
     ELSE /\ pc' = "merge_call"
          /\ UNCHANGED <<sumVars, postVars, exc, exit>>
  /\ UNCHANGED <<sideVars, peer, splitVars, script, output_folder, run, retryVars, reqHist, runHist>>

\* generate_merged_final_post: with open(output_file, 'w') of
\* merged-final-post.md
generate_merged_final_post_open ==
  /\ pc = "merge_open"
  /\ output_folder' = [output_folder EXCEPT ![PostName(MergedPost)] = EmptyFile(run)]
  /\ pc' = "merge_write"
  /\ UNCHANGED <<sideVars, peer, splitVars, script, run, sumVars, postVars, retryVars, exc, reqHist, runHist, exit>>

\* generate_merged_final_post: f.write, return True, and the script exits
generate_merged_final_post_write ==
  /\ pc = "merge_write"
  /\ output_folder' =
       [output_folder EXCEPT ![PostName(MergedPost)] = WrittenPost(run, linkedin_post_raw)]
  /\ inflight' = NoName
  /\ pc' = "idle"
  /\ exit' = "returned"
  /\ ClearMemory
  /\ ClearRequest
  /\ UNCHANGED <<sideVars, peer, splitVars, script, run, called, last_signal, startdir, succeeded, elapsed>>

\* process_all_files: except Exception around generate_merged_final_post,
\* the error is logged and the script exits
process_all_files_merge_except ==
  /\ pc = "merge_except"
  /\ pc' = "idle"
  /\ exit' = "returned"
  /\ ClearMemory
  /\ ClearRequest
  /\ UNCHANGED <<sideVars, peer, splitVars, script, output_folder, run, runHist>>

(* ----------------------------- rename_files --------------------------- *)

\* the order of the main names under Python's string comparison
main_name_rank(b) == IF b = "memo" THEN 1 ELSE 2

\* the sort key (main_name, part_num) of a file
sort_before(a, b) ==
  \/ main_name_rank(a.base) < main_name_rank(b.base)
  \/ a.base = b.base /\ a.part < b.part

\* file_info.sort(key=...): the sort is stable, so files with equal keys
\* keep the order os.listdir gave them in, which is arbitrary
RECURSIVE sorted_file_info(_)
sorted_file_info(S) ==
  IF S = {} THEN {<<>>}
  ELSE UNION {{<<x>> \o t : t \in sorted_file_info(S \ {x})} :
                x \in {y \in S : \A z \in S : ~sort_before(z, y)}}

\* os.rename(old_path, new_path): the file moves, replacing what new_path
\* held
os_rename(dir, old, new) == [dir EXCEPT ![new] = dir[old], ![old] = NoFile]

\* the loop of rename_files over the sorted files
RECURSIVE rename_loop(_, _, _)
rename_loop(dir, file_info, serial_number) ==
  IF file_info = <<>> THEN dir
  ELSE LET old_name == Head(file_info)
           new_name == SerialName(serial_number, strip_serial(old_name))
       IN  IF old_name = new_name
           THEN rename_loop(dir, Tail(file_info), serial_number + 1)
           ELSE rename_loop(os_rename(dir, old_name, new_name), Tail(file_info),
                            serial_number + 1)

\* the operator runs the rename stage on the summary folder while no
\* summarizer runs
rename_files ==
  /\ script = "summarizer"
  /\ pc = "idle"
  /\ \E file_info \in sorted_file_info({n \in TxtNames : Exists(output_folder, n)}) :
       output_folder' = rename_loop(output_folder, file_info, 1)
  /\ UNCHANGED <<sideVars, peer, splitVars, script, run, pc, sumVars, postVars, retryVars, exc, reqHist, runHist, exit>>

(* ------------------------------ the operator --------------------------- *)

\* the operator terminates the running process
Kill ==
  /\ pc # "idle"
  /\ pc' = "idle"
  /\ exit' = "killed"
  /\ ClearMemory
  /\ ClearRequest
  /\ UNCHANGED <<sideVars, peer, splitVars, script, output_folder, run, runHist>>

Next ==
  \/ process_all_transcripts_start
  \/ process_all_transcripts_next
  \/ process_all_transcripts_finish
  \/ process_all_transcripts_except
  \/ process_transcript_chunk
  \/ process_transcript_open
  \/ process_transcript_write
  \/ process_transcript_except
  \/ generate_summary
  \/ process_all_files_start
  \/ process_all_files_next
  \/ process_file_group_open
  \/ process_file_group_write
  \/ process_all_files_except
  \/ process_all_files_finish
  \/ generate_merged_final_post
  \/ generate_merged_final_post_open
  \/ generate_merged_final_post_write
  \/ process_all_files_merge_except
  \/ generate_linkedin_post
  \/ Kill

Spec == Init /\ [][Next]_vars

\* generate_summary against an endpoint that answers every call with a
\* well-formed response
generate_summary_served ==
  generate_summary_pass({r \in Replies : r.status = 200 /\ r.choices})

\* the summarizer, against an endpoint that serves every call, with the
\* rename stage run between its runs
RenameNext ==
  \/ process_all_transcripts_start
  \/ process_all_transcripts_next
  \/ process_all_transcripts_finish
  \/ process_transcript_chunk
  \/ generate_summary_served
  \/ process_transcript_open
  \/ process_transcript_write
  \/ rename_files
  \/ Kill

SpecRename == Init /\ [][RenameNext]_vars

(* ------------------- the response parser on its own -------------------- *)

\* generate_summary has received a 200 reply with some text for part 1 of
\* "talk" in the first run
ParseInit ==
  /\ script = "summarizer"
  /\ output_folder = [n \in AllNames |-> NoFile]
  /\ run = 1
  /\ pc = "parse"
  /\ transcript_files = <<>>
  /\ transcript_file = "talk"
  /\ i = 1
  /\ result = NoResult
  /\ unprocessed_groups = <<>>
  /\ base_name = ""
  /\ linkedin_post_raw = <<>>
  /\ retry_count = 0
  /\ last_error = NoError
  /\ exc = NoError
  /\ called = {Current}
  /\ attempts = 1
  /\ delays = <<>>
  /\ last_reply \in {[status |-> 200, choices |-> TRUE, text |-> t, body |-> <<>>] : t \in Responses}
  /\ last_signal = {}
  /\ startdir = [n \in AllNames |-> NoFile]
  /\ succeeded = {}
  /\ inflight = NoName
  /\ transient_only = TRUE
  /\ exit = "none"
  /\ text = <<>>
  /\ chunk_size = ChunkSize
  /\ chunks = <<>>
  /\ previous_chunks = <<>>
  /\ splits = 0
  /\ peer = NoPeer
  /\ elapsed = 0
  /\ publisher = NoPublisher
  /\ repo = EmptyRepo
  /\ transcriber = NoTranscriber
  /\ renamer = NoRenamer
  /\ assistant = NoAssistant
  /\ parser = NoParser
  /\ client = NoClient
  /\ grouper = NoGrouper

\* generate_summary: the return of the summary and takeaways extracted from
\* the response
generate_summary_return ==
  /\ pc = "parse"
  /\ result' = extract_summary(last_reply.text)
  /\ pc' = "open"
  /\ succeeded' = succeeded \cup {Current}
  /\ inflight' = Current
  /\ UNCHANGED <<sideVars, peer, splitVars, script, output_folder, run, transcript_files, transcript_file, i, postVars,
                 retryVars, exc, called, reqHist, last_signal, startdir, elapsed, exit>>

ParseNext ==
  \/ generate_summary_return
  \/ process_transcript_open
  \/ process_transcript_write

SpecParse == ParseInit /\ [][ParseNext]_vars

(* ----------------------- the summarizer left to run -------------------- *)

\* the steps of a running summarizer
SummarizerStep ==
  \/ process_all_transcripts_next
  \/ process_all_transcripts_finish
  \/ process_all_transcripts_except
  \/ process_transcript_chunk
  \/ process_transcript_open
  \/ process_transcript_write
  \/ process_transcript_except
  \/ generate_summary

SummarizerNext ==
  \/ process_all_transcripts_start
  \/ SummarizerStep
  \/ Kill

\* the summarizer is a sequential process: requests.post returns within its
\* timeout and every sleep ends, so a running process takes its next step
SpecLive ==
  /\ Init
  /\ script = "summarizer"
  /\ [][SummarizerNext]_vars
  /\ WF_vars(SummarizerStep)

(* ----------------------- the summarizer and its input ------------------ *)

\* process_all_transcripts when the input folder does not exist:
\* get_transcript_files raises FileNotFoundError, the except clause of
\* process_all_transcripts logs and re-raises it, and so does main
process_all_transcripts_no_input_folder ==
  /\ script = "summarizer"
  /\ pc = "idle"
  /\ run < MaxRuns
  /\ run' = run + 1
  /\ exit' = "raised"
  /\ StartHistory
  /\ UNCHANGED <<sideVars, peer, splitVars, script, output_folder, pc, sumVars, postVars, retryVars, exc, reqHist>>

\* process_transcript of a file that cannot be read: open or f.read()
\* raises, the outer except clause of process_transcript logs and re-raises
process_transcript_unreadable ==
  /\ pc = "next_file"
  /\ transcript_files # <<>>
  /\ transcript_file' = Head(transcript_files)
  /\ transcript_files' = Tail(transcript_files)
  /\ exc' = ReadError
  /\ pc' = "except_file"
  /\ UNCHANGED <<sideVars, peer, splitVars, script, output_folder, run, i, result, postVars, retryVars,
                 reqHist, runHist, exit>>

\* the summarizer, against an endpoint that serves every call, with an
\* input folder that can be missing and files that can be unreadable
InputNext ==
  \/ process_all_transcripts_start
  \/ process_all_transcripts_no_input_folder
  \/ process_all_transcripts_next
  \/ process_transcript_unreadable
  \/ process_all_transcripts_finish
  \/ process_all_transcripts_except
  \/ process_transcript_chunk
  \/ generate_summary_served
  \/ process_transcript_open
  \/ process_transcript_write
  \/ Kill

SpecInput == Init /\ [][InputNext]_vars

(* ------------------ two invocations of the summarizer ------------------ *)

\* what the first invocation leaves alone
firstVars ==
  <<script, run, pc, sumVars, postVars, retryVars, exc, reqHist, runHist, exit>>

\* the second invocation starts: setup_folders, get_transcript_files, and
\* the return when nothing is left to process
peer_process_all_transcripts_start ==
  /\ script = "summarizer"
  /\ ~peer.started
  /\ \E order \in Orderings(get_transcript_files(output_folder)) :
       peer' = [peer EXCEPT !.started = TRUE,
                            !.transcript_files = order,
                            !.pc = IF order = <<>> THEN "idle" ELSE "next_file"]
  /\ UNCHANGED <<sideVars, splitVars, output_folder, firstVars>>

\* for transcript_file in transcript_files: enter process_transcript
peer_process_all_transcripts_next ==
  /\ peer.pc = "next_file"
  /\ peer.transcript_files # <<>>
  /\ peer' = [peer EXCEPT !.transcript_file = Head(peer.transcript_files),
                          !.transcript_files = Tail(peer.transcript_files),
                          !.i = 1,
                          !.pc = "chunk"]
  /\ UNCHANGED <<sideVars, splitVars, output_folder, firstVars>>

\* the loop is over and the second invocation exits
peer_process_all_transcripts_finish ==
  /\ peer.pc = "next_file"
  /\ peer.transcript_files = <<>>
  /\ peer' = [peer EXCEPT !.pc = "idle", !.transcript_file = "", !.i = 0]
  /\ UNCHANGED <<sideVars, splitVars, output_folder, firstVars>>

\* the chunk loop of process_transcript: its end, the skip of a part that
\* exists, or the start of generate_summary for the chunk
peer_process_transcript_chunk ==
  /\ peer.pc = "chunk"
  /\ peer' =
       IF peer.i > Len(Chunks(peer.transcript_file))
       THEN [peer EXCEPT !.pc = "next_file"]
       ELSE IF part_exists(output_folder, PeerCurrent)
       THEN [peer EXCEPT !.i = peer.i + 1]
       ELSE [peer EXCEPT !.pc = "call"]
  /\ UNCHANGED <<sideVars, splitVars, output_folder, firstVars>>

\* generate_summary of the second invocation, served by the endpoint
peer_generate_summary_served ==
  /\ peer.pc = "call"
  /\ \E reply \in {r \in Replies : r.status = 200 /\ r.choices} :
       peer' = [peer EXCEPT !.result = extract_summary(reply.text),
                            !.called = peer.called \cup {PeerCurrent},
                            !.pc = "open"]
  /\ UNCHANGED <<sideVars, splitVars, output_folder, firstVars>>

\* with open(output_file, 'w'): the file is created or truncated
peer_process_transcript_open ==
  /\ peer.pc = "open"
  /\ output_folder' = [output_folder EXCEPT ![PeerCurrent] = EmptyFile(run)]
  /\ peer' = [peer EXCEPT !.pc = "write"]
  /\ UNCHANGED <<sideVars, splitVars, firstVars>>

\* the f.write calls and the close of the file, then the next chunk
peer_process_transcript_write ==
  /\ peer.pc = "write"
  /\ output_folder' =
       [output_folder EXCEPT ![PeerCurrent] =
          WrittenFile(run, peer.result, Chunks(peer.transcript_file)[peer.i])]
  /\ peer' = [peer EXCEPT !.wrote = peer.wrote \cup {PeerCurrent},
                          !.result = NoResult,
                          !.i = peer.i + 1,
                          !.pc = "chunk"]
  /\ UNCHANGED <<sideVars, splitVars, firstVars>>

\* two invocations of the summarizer on the same input and output folders,
\* against an endpoint that serves every call
ConcurrentNext ==
  \/ process_all_transcripts_start
  \/ process_all_transcripts_next
  \/ process_all_transcripts_finish
  \/ process_transcript_chunk
  \/ generate_summary_served
  \/ process_transcript_open
  \/ process_transcript_write
  \/ peer_process_all_transcripts_start
  \/ peer_process_all_transcripts_next
  \/ peer_process_all_transcripts_finish
  \/ peer_process_transcript_chunk
  \/ peer_generate_summary_served
  \/ peer_process_transcript_open
  \/ peer_process_transcript_write

SpecConcurrent == Init /\ [][ConcurrentNext]_vars

(* ------------------------- the splitter on its own ---------------------- *)

\* the scripts that split a text: the summarizer with chunk_text, the
\* research assistant with split_content
Splitters == {"summarizer", "research"}

\* a process is about to split some text with some positive chunk size
SplitInit ==
  /\ script \in Splitters
  /\ text \in Texts
  /\ chunk_size \in 1..MaxChunkSize
  /\ chunks = <<>>
  /\ previous_chunks = <<>>
  /\ splits = 0
  /\ peer = NoPeer
  /\ elapsed = 0
  /\ publisher = NoPublisher
  /\ repo = EmptyRepo
  /\ transcriber = NoTranscriber
  /\ renamer = NoRenamer
  /\ assistant = NoAssistant
  /\ parser = NoParser
  /\ client = NoClient
  /\ grouper = NoGrouper
  /\ output_folder = [n \in AllNames |-> NoFile]
  /\ run = 1
  /\ pc = "split"
  /\ transcript_files = <<>>
  /\ transcript_file = ""
  /\ i = 0
  /\ result = NoResult
  /\ unprocessed_groups = <<>>
  /\ base_name = ""
  /\ linkedin_post_raw = <<>>
  /\ retry_count = 0
  /\ last_error = NoError
  /\ exc = NoError
  /\ called = {}
  /\ attempts = 0
  /\ delays = <<>>
  /\ last_reply = NoReply
  /\ last_signal = {}
  /\ startdir = [n \in AllNames |-> NoFile]
  /\ succeeded = {}
  /\ inflight = NoName
  /\ transient_only = TRUE
  /\ exit = "none"

\* what the splitter of the running script returns
splitter(t, size) ==
  IF script = "summarizer" THEN chunk_text(t, size) ELSE split_content(t, size)

\* mutant: the chunk size grows with the number of the run
split_call_run_seeded ==
  /\ pc = "split"
  /\ splits < MaxSplits
  /\ previous_chunks' = chunks
  /\ chunks' = splitter(text, chunk_size + run - 1)
  /\ splits' = splits + 1
  /\ pc' = "split_done"
  /\ UNCHANGED <<sideVars, peer, text, chunk_size, script, output_folder, run, sumVars, postVars, retryVars,
                 exc, reqHist, runHist, exit>>

\* chunks = self.chunk_text(content) / chunks = split_content(content)
split_call ==
  /\ pc = "split"
  /\ splits < MaxSplits
  /\ previous_chunks' = chunks
  /\ chunks' = splitter(text, chunk_size)
  /\ splits' = splits + 1
  /\ pc' = "split_done"
  /\ UNCHANGED <<sideVars, peer, text, chunk_size, script, output_folder, run, sumVars, postVars, retryVars,
                 exc, reqHist, runHist, exit>>

\* the same input is split again in the same run
split_again ==
  /\ pc = "split_done"
  /\ splits < MaxSplits
  /\ pc' = "split"
  /\ UNCHANGED <<sideVars, peer, splitVars, script, output_folder, run, sumVars, postVars, retryVars,
                 exc, reqHist, runHist, exit>>

\* the process ends and a new run splits the same input
split_restart ==
  /\ pc = "split_done"
  /\ splits < MaxSplits
  /\ run' = run + 1
  /\ pc' = "split"
  /\ UNCHANGED <<sideVars, peer, splitVars, script, output_folder, sumVars, postVars, retryVars,
                 exc, reqHist, runHist, exit>>

SplitNext ==
  \/ split_call
  \/ split_again
  \/ split_restart

SpecSplit == SplitInit /\ [][SplitNext]_vars

(* --------------------------- the publisher ----------------------------- *)

\* every main variable as Init leaves it, for the stages modelled on their
\* own
MainIdle ==
  /\ output_folder = [n \in AllNames |-> NoFile]
  /\ run = 0
  /\ pc = "idle"
  /\ transcript_files = <<>>
  /\ transcript_file = ""
  /\ i = 0
  /\ result = NoResult
  /\ unprocessed_groups = <<>>
  /\ base_name = ""
  /\ linkedin_post_raw = <<>>
  /\ retry_count = 0
  /\ last_error = NoError
  /\ exc = NoError
  /\ called = {}
  /\ attempts = 0
  /\ delays = <<>>
  /\ last_reply = NoReply
  /\ last_signal = {}
  /\ startdir = [n \in AllNames |-> NoFile]
  /\ succeeded = {}
  /\ inflight = NoName
  /\ transient_only = TRUE
  /\ exit = "none"
  /\ text = <<>>
  /\ chunk_size = ChunkSize
  /\ chunks = <<>>
  /\ previous_chunks = <<>>
  /\ splits = 0
  /\ peer = NoPeer
  /\ elapsed = 0

\* what the stages modelled on their own leave alone
mainVars ==
  <<script, output_folder, run, pc, sumVars, postVars, retryVars, exc, reqHist, runHist,
    exit, splitVars, peer>>

\* what the publisher leaves alone
notPublisher == <<mainVars, transcriber, renamer, grouper, assistant, parser, client>>

PublishInit ==
  /\ script = "publisher"
  /\ MainIdle
  /\ publisher = NoPublisher
  /\ repo = EmptyRepo
  /\ transcriber = NoTranscriber
  /\ renamer = NoRenamer
  /\ assistant = NoAssistant
  /\ parser = NoParser
  /\ client = NoClient
  /\ grouper = NoGrouper

\* the blob sha of a remote file: a hash of its content
sha(content) == content

\* the .md files the input folder can hold at the start of a run: some of
\* the generated posts, one per name
InputFolders ==
  {S \in SUBSET LocalFiles : \A f, g \in S : f.filename = g.filename => f = g}

\* process_all_files up to the loop: get_files_to_process lists the input
\* folder and computes the GitHub file name of every file from its content
publisher_process_all_files_start ==
  /\ script = "publisher"
  /\ publisher.pc = "idle"
  /\ publisher.run < MaxRuns
  /\ \E folder \in InputFolders : \E order \in Orderings(folder) :
       publisher' =
         [publisher EXCEPT !.run = publisher.run + 1,
                           !.files_to_process = order,
                           !.successful = 0,
                           !.failed = 0,
                           !.pc = IF order = <<>> THEN "idle" ELSE "next"]
  /\ UNCHANGED <<repo, notPublisher>>

\* for file_info in files_to_process: push_file_to_github up to the request
\* for the existing file; every file of LocalFiles carries a date, so the
\* file name never falls back to today's date
publisher_process_all_files_next ==
  /\ publisher.pc = "next"
  /\ publisher.files_to_process # <<>>
  /\ LET file_info == Head(publisher.files_to_process)
     IN  publisher' =
           [publisher EXCEPT
              !.files_to_process = Tail(publisher.files_to_process),
              !.file_info = file_info,
              !.pure_content = extract_pure_content(file_info.content),
              !.remote_path =
                 generate_github_filename(file_info.filename, file_info.content,
                                          extract_frontmatter_date(file_info.content, "")),
              !.pc = "get"]
  /\ UNCHANGED <<repo, notPublisher>>

\* the loop is over: progress_tracker.finish() and the return
publisher_process_all_files_finish ==
  /\ publisher.pc = "next"
  /\ publisher.files_to_process = <<>>
  /\ publisher' = [publisher EXCEPT !.pc = "idle", !.file_info = NoLocalFile,
                                    !.remote_path = NoPath, !.pure_content = <<>>,
                                    !.existing_sha = <<>>]
  /\ UNCHANGED <<repo, notPublisher>>

\* existing_file = self.repo.get_contents(remote_path): the content and the
\* sha of the file, and preserve_existing_date; the exception raised for a
\* path that does not exist goes to the bare except clause
push_file_to_github_get_contents ==
  /\ publisher.pc = "get"
  /\ publisher' =
       IF Exists(repo, publisher.remote_path)
       THEN [publisher EXCEPT
               !.existing_sha = sha(repo[publisher.remote_path].content),
               !.pure_content =
                  preserve_existing_date(publisher.pure_content,
                                         repo[publisher.remote_path].content),
               !.pc = "update"]
       ELSE [publisher EXCEPT !.pc = "create"]
  /\ UNCHANGED <<repo, notPublisher>>

\* self.repo.update_file(remote_path, message, pure_content,
\* existing_file.sha): the update is made when the sha is the current one,
\* and refused otherwise, which raises into the bare except clause
push_file_to_github_update_file ==
  /\ publisher.pc = "update"
  /\ IF /\ Exists(repo, publisher.remote_path)
        /\ sha(repo[publisher.remote_path].content) = publisher.existing_sha
     THEN /\ repo' = [repo EXCEPT ![publisher.remote_path] =
                        [exists |-> TRUE, content |-> publisher.pure_content]]
          /\ publisher' = [publisher EXCEPT !.successful = publisher.successful + 1,
                                            !.pc = "next"]
     ELSE /\ publisher' = [publisher EXCEPT !.pc = "create"]
          /\ UNCHANGED repo
  /\ UNCHANGED notPublisher

\* except: self.repo.create_file(remote_path, commit_message, pure_content);
\* creating a path that exists is refused, the exception goes to the outer
\* except clause and push_file_to_github returns False
push_file_to_github_create_file ==
  /\ publisher.pc = "create"
  /\ IF Exists(repo, publisher.remote_path)
     THEN /\ publisher' = [publisher EXCEPT !.failed = publisher.failed + 1,
                                            !.pc = "next"]
          /\ UNCHANGED repo
     ELSE /\ repo' = [repo EXCEPT ![publisher.remote_path] =
                        [exists |-> TRUE, content |-> publisher.pure_content]]
          /\ publisher' = [publisher EXCEPT !.successful = publisher.successful + 1,
                                            !.pc = "next"]
  /\ UNCHANGED notPublisher

\* someone else commits a change to the file between the publisher's read
\* and its update: the post gets another time of day
other_commit ==
  /\ publisher.pc = "update"
  /\ Exists(repo, publisher.remote_path)
  /\ \E t \in Times :
       LET content ==
             strip_chars(format_jekyll_post(extract_frontmatter_title(publisher.pure_content),
                                            DateValue(publisher.remote_path.day, t)),
                         Whitespace)
       IN  /\ content # repo[publisher.remote_path].content
           /\ repo' = [repo EXCEPT ![publisher.remote_path].content = content]
  /\ UNCHANGED <<publisher, notPublisher>>

PublishNext ==
  \/ publisher_process_all_files_start
  \/ publisher_process_all_files_next
  \/ publisher_process_all_files_finish
  \/ push_file_to_github_get_contents
  \/ push_file_to_github_update_file
  \/ push_file_to_github_create_file
  \/ other_commit

SpecPublish == PublishInit /\ [][PublishNext]_vars

(* ---------------------- the rename stage on its own --------------------- *)

\* what the rename stage leaves alone
notRenamer == <<mainVars, publisher, repo, transcriber, grouper, assistant, parser, client>>

\* the operator is about to run step03_rename_files.py on some folder
RenameOnlyInit ==
  /\ script = "renamer"
  /\ MainIdle
  /\ publisher = NoPublisher
  /\ repo = EmptyRepo
  /\ transcriber = NoTranscriber
  /\ grouper = NoGrouper
  /\ assistant = NoAssistant
  /\ parser = NoParser
  /\ client = NoClient
  /\ \E folder \in RenameFolders :
       renamer = [folder |-> folder, start |-> folder, first |-> folder, runs |-> 0]

\* a run of rename_files on the folder: the listing, the sort, and the loop
\* of renames; no file is added or removed between the runs
rename_files_run ==
  /\ script = "renamer"
  /\ renamer.runs < MaxRuns
  /\ \E file_info \in sorted_file_info({n \in RenameNames : Exists(renamer.folder, n)}) :
       renamer' =
         [folder |-> rename_loop(renamer.folder, file_info, 1),
          start |-> renamer.folder,
          first |-> IF renamer.runs = 0 THEN renamer.folder ELSE renamer.first,
          runs |-> renamer.runs + 1]
  /\ UNCHANGED notRenamer

RenameOnlyNext == rename_files_run

SpecRenameOnly == RenameOnlyInit /\ [][RenameOnlyNext]_vars

(* ------------------- the grouping of the post generator ---------------- *)

\* what the grouping leaves alone
notGrouper == <<mainVars, publisher, repo, transcriber, renamer, assistant, parser, client>>

\* the files of a source in the folder, with what each name encodes; the
\* serial numbers start after `before` and follow the segment index
source_files(b, parts, renamed, before) ==
  {[b |-> b, n |-> n,
    filename |-> IF renamed
                 THEN serial_prefix(before + Cardinality({m \in parts : m <= n}))
                        \o part_file_name(b, n)
                 ELSE part_file_name(b, n)] : n \in parts}

\* the summarizer has written segments of two sources into the folder, the
\* second source with a shorter name, and the rename stage has run on the
\* folder or has not
GroupInit ==
  /\ script = "grouper"
  /\ MainIdle
  /\ publisher = NoPublisher
  /\ repo = EmptyRepo
  /\ transcriber = NoTranscriber
  /\ renamer = NoRenamer
  /\ assistant = NoAssistant
  /\ parser = NoParser
  /\ client = NoClient
  /\ \E b1 \in BaseNames, b2 \in ShortNames, parts \in PartSets, renamed \in BOOLEAN :
       /\ b1 # b2
       /\ grouper = [pc |-> "listed",
                     written |-> source_files(b1, parts, renamed, 0)
                                   \cup source_files(b2, {1}, renamed, Cardinality(parts)),
                     file_groups |-> <<>>]

\* group_files_by_base_name: every .txt and .md file of the folder goes
\* into the group of its base name, and each group is sorted by part number
group_files_by_base_name ==
  /\ script = "grouper"
  /\ grouper.pc = "listed"
  /\ \E g \in file_groups_of({w.filename : w \in grouper.written}) :
       grouper' = [grouper EXCEPT !.pc = "grouped", !.file_groups = g]
  /\ UNCHANGED notGrouper

GroupNext == group_files_by_base_name

SpecGroup == GroupInit /\ [][GroupNext]_vars

(* ------------------------ the research assistant ----------------------- *)

\* what the research assistant leaves alone
notAssistant == <<mainVars, publisher, repo, transcriber, renamer, grouper, parser, client>>

\* chunks = split_content(content)
AssistantChunks(s) == split_content(Content(s), AssistantChunkSize)

\* what one attempt of get_perplexity_response can end with: the server
\* cannot be started, session.call raises, or it returns a response, which
\* has the two labels, lacks one, or is no dict with a 'content'
CallOutcomes == {"no_session", "raises", "formatted", "unformatted", "no_content"}

\* get_perplexity_summary: the dict made from a returned response
summary_of(outcome) ==
  IF outcome = "no_content" THEN "invalid_format_text"
  ELSE IF outcome = "unformatted" THEN "raw_response"
  ELSE "summary"

\* the dict get_perplexity_summary returns from its except clause
ErrorPlaceholder == "error_text"

\* output_filename: f"{base_output_name}-part-{i:02d}.md" for a source of
\* several chunks, f"{base_output_name}.md" otherwise
output_filename(s, k) ==
  IF Len(AssistantChunks(s)) > 1 THEN [base |-> s, part |-> k] ELSE [base |-> s, part |-> 0]

\* the script starts: os.listdir(source_dir) in the order it gives
AssistantInit ==
  /\ script = "assistant"
  /\ MainIdle
  /\ publisher = NoPublisher
  /\ repo = EmptyRepo
  /\ transcriber = NoTranscriber
  /\ renamer = NoRenamer
  /\ grouper = NoGrouper
  /\ parser = NoParser
  /\ client = NoClient
  /\ \E order \in Orderings(Sources) :
       assistant = [pc |-> "next_file", files |-> order, filename |-> "", i |-> 0,
                    attempt |-> 0, result |-> "none", output_dir |-> {},
                    responded |-> {}, exhausted |-> {}]

\* for filename in os.listdir(source_dir): the next .txt file, or the end
process_transcript_files_next ==
  /\ script = "assistant"
  /\ assistant.pc = "next_file"
  /\ assistant' =
       IF assistant.files = <<>> THEN [assistant EXCEPT !.pc = "done"]
       ELSE [assistant EXCEPT !.pc = "chunk", !.filename = Head(assistant.files),
                              !.files = Tail(assistant.files), !.i = 1]
  /\ UNCHANGED notAssistant

\* for i, chunk in enumerate(chunks, 1): the end of the loop or the call of
\* get_perplexity_summary
process_transcript_files_chunk ==
  /\ script = "assistant"
  /\ assistant.pc = "chunk"
  /\ assistant' =
       IF assistant.i > Len(AssistantChunks(assistant.filename))
       THEN [assistant EXCEPT !.pc = "next_file"]
       ELSE [assistant EXCEPT !.pc = "call", !.attempt = 0]
  /\ UNCHANGED notAssistant

\* get_perplexity_summary around one attempt of get_perplexity_response: a
\* returned response becomes the result; an exception of session.call is
\* retried while attempt < max_retries - 1; after the last attempt, or when
\* the session cannot be opened, the exception reaches the except clause of
\* get_perplexity_summary, which returns the error placeholder as the result
get_perplexity_summary ==
  /\ script = "assistant"
  /\ assistant.pc = "call"
  /\ \E outcome \in CallOutcomes :
       /\ outcome = "no_session" => assistant.attempt = 0
       /\ assistant' =
            IF outcome = "no_session"
            THEN [assistant EXCEPT !.pc = "write", !.result = ErrorPlaceholder,
                    !.exhausted = @ \cup {<<assistant.filename, assistant.i>>}]
            ELSE IF outcome = "raises"
            THEN IF assistant.attempt < perplexity_max_retries - 1
                 THEN [assistant EXCEPT !.attempt = @ + 1]
                 ELSE [assistant EXCEPT !.pc = "write", !.result = ErrorPlaceholder,
                         !.exhausted = @ \cup {<<assistant.filename, assistant.i>>}]
            ELSE [assistant EXCEPT !.pc = "write", !.result = summary_of(outcome),
                    !.responded = @ \cup {<<assistant.filename, assistant.i>>}]
  /\ UNCHANGED notAssistant

\* create_markdown_summary and the write of the output file, then the next
\* chunk
process_transcript_files_write ==
  /\ script = "assistant"
  /\ assistant.pc = "write"
  /\ assistant' =
       [assistant EXCEPT
          !.output_dir = {f \in @ : f.name # output_filename(assistant.filename, assistant.i)}
                           \cup {[name |-> output_filename(assistant.filename, assistant.i),
                                  source |-> assistant.filename, segment |-> assistant.i,
                                  summary |-> assistant.result]},
          !.i = @ + 1, !.result = "none", !.pc = "chunk"]
  /\ UNCHANGED notAssistant

AssistantNext ==
  \/ process_transcript_files_next
  \/ process_transcript_files_chunk
  \/ get_perplexity_summary
  \/ process_transcript_files_write

SpecAssistant == AssistantInit /\ [][AssistantNext]_vars

(* ----------------------- parse_linkedin_post on its own ----------------- *)

\* what the response parser of the post generator leaves alone
notParser == <<mainVars, publisher, repo, transcriber, renamer, grouper, assistant, client>>

\* the model has answered with some response text
PostParseInit ==
  /\ script = "post_parser"
  /\ MainIdle
  /\ publisher = NoPublisher
  /\ repo = EmptyRepo
  /\ transcriber = NoTranscriber
  /\ renamer = NoRenamer
  /\ grouper = NoGrouper
  /\ assistant = NoAssistant
  /\ client = NoClient
  /\ \E response \in ResponseTexts :
       parser = [pc |-> "response", response_text |-> response,
                 raised |-> "none", sections |-> ErrorSections]

\* sections = self.parse_linkedin_post(linkedin_post_raw)
parse_linkedin_post_call ==
  /\ script = "post_parser"
  /\ parser.pc = "response"
  /\ LET r == parse_linkedin_post(parser.response_text)
     IN  parser' = [parser EXCEPT !.pc = IF r.raised = "none" THEN "parsed" ELSE "raised",
                                  !.raised = r.raised, !.sections = r.sections]
  /\ UNCHANGED notParser

\* jekyll_post = self.format_jekyll_post(base_name, sections)
format_jekyll_post_call ==
  /\ script = "post_parser"
  /\ parser.pc = "parsed"
  /\ LET e == format_jekyll_post_raises(parser.sections)
     IN  parser' = [parser EXCEPT !.pc = IF e = "none" THEN "formatted" ELSE "raised",
                                  !.raised = e]
  /\ UNCHANGED notParser

PostParseNext == parse_linkedin_post_call \/ format_jekyll_post_call

SpecPostParse == PostParseInit /\ [][PostParseNext]_vars

(* ------------------------------ the MCP client -------------------------- *)

\* what the MCP client leaves alone
notClient == <<mainVars, publisher, repo, transcriber, renamer, grouper, assistant, parser>>

\* list_available_resources, list_available_tools, read_resource, call_tool
Operations == {"list_available_resources", "list_available_tools", "read_resource", "call_tool"}

\* MCPClient.__init__: self.session = None. The history: whether the
\* client is between a successful initialize() and a close(), the latest
\* call, whether self.session was set when it was made, whether it was
\* handed to the session object, and how it ended
NewClient ==
  [pc |-> "ready", session |-> "None", open |-> FALSE, calls |-> 0,
   last_call |-> "none", had_session |-> FALSE, delegated |-> FALSE, ended |-> "none"]

ClientInit ==
  /\ script = "mcp_client"
  /\ MainIdle
  /\ publisher = NoPublisher
  /\ repo = EmptyRepo
  /\ transcriber = NoTranscriber
  /\ renamer = NoRenamer
  /\ grouper = NoGrouper
  /\ assistant = NoAssistant
  /\ parser = NoParser
  /\ client = NewClient

\* initialize(): stdio_client(...).__aenter__() or ClientSession(...).__aenter__()
\* raises before self.session is assigned; session.initialize() raises
\* after it is assigned; or all three succeed
mcp_initialize ==
  /\ script = "mcp_client"
  /\ client.calls < MaxCalls
  /\ \E outcome \in {"no_transport", "initialize_raises", "initialized"} :
       client' =
         [client EXCEPT
            !.session = IF outcome = "no_transport" THEN @
                        ELSE IF outcome = "initialize_raises" THEN "entered"
                        ELSE "initialized",
            !.open = IF outcome = "initialized" THEN TRUE ELSE @,
            !.calls = @ + 1,
            !.last_call = "initialize",
            !.had_session = (client.session # "None"),
            !.delegated = FALSE,
            !.ended = IF outcome = "initialized" THEN "returned" ELSE "raised"]
  /\ UNCHANGED notClient

\* one of the four operations: RuntimeError('Session not initialized')
\* when self.session is None; otherwise the call is made on the session
\* object, and returns or raises; on a session that was exited it raises
mcp_operation ==
  /\ script = "mcp_client"
  /\ client.calls < MaxCalls
  /\ \E op \in Operations, outcome \in {"returned", "raised"} :
       client' =
         [client EXCEPT
            !.calls = @ + 1,
            !.last_call = op,
            !.had_session = (client.session # "None"),
            !.delegated = (client.session # "None"),
            !.ended = IF client.session = "None" THEN "RuntimeError"
                      ELSE IF client.session = "exited" THEN "raised"
                      ELSE outcome]
  /\ UNCHANGED notClient

\* close(): session.__aexit__ when self.session is set, which returns or
\* raises; self.session keeps the session object. Nothing without a session
mcp_close ==
  /\ script = "mcp_client"
  /\ client.calls < MaxCalls
  /\ \E outcome \in {"returned", "raised"} :
       client' =
         [client EXCEPT
            !.session = IF @ = "None" THEN @ ELSE "exited",
            !.open = FALSE,
            !.calls = @ + 1,
            !.last_call = "close",
            !.had_session = (client.session # "None"),
            !.delegated = (client.session # "None"),
            !.ended = IF client.session = "None" THEN "nothing" ELSE outcome]
  /\ UNCHANGED notClient

ClientNext == mcp_initialize \/ mcp_operation \/ mcp_close

SpecClient == ClientInit /\ [][ClientNext]_vars

(* ------------------------ the YouTube transcriber ---------------------- *)

\* what the transcriber leaves alone
notTranscriber == <<mainVars, publisher, repo, renamer, grouper, assistant, parser, client>>

TranscribeInit ==
  /\ script = "transcriber"
  /\ MainIdle
  /\ publisher = NoPublisher
  /\ repo = EmptyRepo
  /\ transcriber = NoTranscriber
  /\ renamer = NoRenamer
  /\ assistant = NoAssistant
  /\ parser = NoParser
  /\ client = NoClient
  /\ grouper = NoGrouper

\* what YouTubeTranscriptApi().fetch and the write of the transcript can end
\* with: the transcript saved, TranscriptsDisabled / NoTranscriptFound, or
\* any other exception
Outcomes == {"saved", "no_transcript", "error"}

\* mutant: every video of all_videos is taken again
failed_videos_all(status) == [k \in DOMAIN Videos |-> k]

\* [v for v in all_videos if v['status'] == 'pending'], as indexes into
\* all_videos
failed_videos_pending(status) ==
  LET pending == {k \in DOMAIN Videos : status[k] = "pending"}
      nth(j) == CHOOSE k \in pending : Cardinality({m \in pending : m < k}) = j - 1
  IN  [j \in 1..Cardinality(pending) |-> nth(j)]

\* process_all_youtube up to the retry loop: every video of the *_yt.txt
\* files is collected with status 'pending'
process_all_youtube_start ==
  /\ script = "transcriber"
  /\ transcriber.pc = "idle"
  /\ transcriber' = [NoTranscriber EXCEPT !.pc = "round",
                                          !.progress_tracker = ProgressTracker(Len(Videos))]
  /\ UNCHANGED notTranscriber

\* for retry_round in range(max_retries): the pending videos are collected;
\* the loop ends when the rounds are used up or nothing is pending
process_all_youtube_round ==
  /\ transcriber.pc = "round"
  /\ LET failed_videos == failed_videos_pending(transcriber.status)
     IN  transcriber' =
           IF transcriber.retry_round >= youtube_max_retries \/ failed_videos = <<>>
           THEN [transcriber EXCEPT !.pc = "done", !.failed_videos = <<>>]
           ELSE [transcriber EXCEPT !.pc = "video",
                                    !.failed_videos = failed_videos,
                                    !.pending_at_start =
                                       {k \in DOMAIN Videos : transcriber.status[k] = "pending"},
                                    !.attempted = {}]
  /\ UNCHANGED notTranscriber

\* for video_item in failed_videos: transcribe_youtube_video starts the
\* item in the progress tracker, fetches the transcript and saves it, or
\* returns None when an exception is raised, and completes the item;
\* the status is set from the result; after the last video the next round
\* starts
transcribe_youtube_video ==
  /\ transcriber.pc = "video"
  /\ transcriber.failed_videos # <<>>
  /\ \E outcome \in Outcomes :
       LET k == Head(transcriber.failed_videos)
           rest == Tail(transcriber.failed_videos)
       IN  transcriber' =
             [transcriber EXCEPT
                !.failed_videos = rest,
                !.status[k] = IF outcome = "saved" THEN "success" ELSE "pending",
                !.saved = IF outcome = "saved" THEN transcriber.saved \cup {k}
                          ELSE transcriber.saved,
                !.fetches[k] = transcriber.fetches[k] + 1,
                !.answer[k] = outcome,
                !.attempted = transcriber.attempted \cup {k},
                !.progress_tracker = complete_item(start_item(@), outcome = "saved"),
                !.retry_round = IF rest = <<>> THEN transcriber.retry_round + 1
                                ELSE transcriber.retry_round,
                !.pc = IF rest = <<>> THEN "round" ELSE "video"]
  /\ UNCHANGED notTranscriber

TranscribeNext ==
  \/ process_all_youtube_start
  \/ process_all_youtube_round
  \/ transcribe_youtube_video

SpecTranscribe == TranscribeInit /\ [][TranscribeNext]_vars

(* ------------------------------- claims -------------------------------- *)

Present(dir, n) == dir[n].exists

Complete(dir, n) == dir[n].exists /\ dir[n].complete

PartsOf(s) == {n \in OutNames : n.base = s}

\* a source that had an output for some but not all of its segments when
\* the run started
PartlyDone(s) ==
  /\ \E n \in PartsOf(s) : Present(startdir, n)
  /\ \E n \in PartsOf(s) : ~Present(startdir, n)

\* every output of the script existed, complete, when the run started
AllDoneAtStart ==
  IF script = "summarizer"
  THEN \A n \in OutNames : Complete(startdir, n)
  ELSE \A g \in Groups : Complete(startdir, PostName(g))

\* this step issues a remote call
CallIssued == attempts' = attempts + 1

\* the reactive wait before a retry: the rate-limit wait and the backoff
TotalDelay(d) == d.waited + d.backoff

\* the places an exception of the invoker is raised to
RaisedTo == {"except_chunk", "post_except", "merge_except"}

\* C1: a run of the summarizer that starts with outputs for some but not all
\* segments of a source issues, by the time it returns, remote calls for
\* exactly the missing segments of that source.
C1_LedgerCorrectness ==
  (script = "summarizer" /\ exit = "returned") =>
    \A s \in Sources :
      PartlyDone(s) =>
        {n \in PartsOf(s) : n \in called} = {n \in PartsOf(s) : ~Present(startdir, n)}

\* C2: an output file of the summarizer that exists when a run starts has,
\* at every later point of that run, the content it had when the run started.
C2_ExistingOutputUntouched ==
  \A n \in OutNames : Present(startdir, n) => output_folder[n] = startdir[n]

C2_Witness ==
  /\ script = "summarizer"
  /\ run = 2
  /\ \E n \in OutNames : Present(startdir, n)
  /\ \E n \in OutNames :
       ~Present(startdir, n) /\ Complete(output_folder, n) /\ output_folder[n].generated = 2

\* C3: a run that starts when every segment of every source (every file
\* group, for the post generator) has its complete output issues no remote
\* call.
C3_LedgerIdempotence ==
  (run >= 1 /\ AllDoneAtStart) => (called = {} /\ attempts = 0 /\ pc = "idle")

C3_Witness ==
  /\ script = "summarizer"
  /\ run = 2
  /\ exit = "returned"
  /\ AllDoneAtStart

\* C4: once the endpoint has answered a call of the summarizer with a quota
\* signal, the run issues no further remote call, neither a retry nor a call
\* for a later segment or source.
C4_QuotaAbort ==
  [][(script = "summarizer" /\ "quota" \in last_signal) => ~CallIssued]_vars

\* C5: once the endpoint has answered with an authentication failure, the
\* run issues no further remote call.
C5_AuthAbortsBatch == [][("auth" \in last_signal) => ~CallIssued]_vars

\* C6: an authentication failure answered to the first attempt of a request
\* of generate_summary or generate_linkedin_post is raised to the caller at
\* once: the request has made one call, no retry is pending and no backoff
\* wait was made.
C6_FatalShortCircuit ==
  (last_reply.status = 401 /\ attempts = 1) =>
    (pc \in RaisedTo /\ exc = AuthError /\ delays = <<>>)

C6_Witness ==
  /\ last_reply.status = 401
  /\ attempts = 1
  /\ pc \in RaisedTo

\* C7: while a request fails only with 429s and request errors, the wait
\* before each retry is strictly greater than the wait before the previous
\* retry; the request is abandoned after exactly max_retries attempts with an
\* error that carries the last observed error.
C7_BackoffMonotonicity ==
  transient_only =>
    /\ \A k \in 1..(Len(delays) - 1) : TotalDelay(delays[k]) < TotalDelay(delays[k + 1])
    /\ attempts <= max_retries
    /\ (pc \in RaisedTo =>
          /\ attempts = max_retries
          /\ exc = max_retries_error(query_api(last_reply).raised))

\* C8: a request of the summarizer given up after max_retries transient
\* failures skips its segment only: the next step of the run goes on with
\* the next segment of the same source, the remaining sources stay
\* scheduled, and no output file exists for the segment.
C8_ExhaustedSkipsSegment ==
  [][(pc = "except_chunk" /\ attempts = max_retries /\ transient_only /\ exit' = "none") =>
       /\ pc' = "chunk"
       /\ i' = i + 1
       /\ transcript_file' = transcript_file
       /\ transcript_files' = transcript_files
       /\ ~Present(output_folder', Current)]_vars

C8_Witness ==
  /\ pc = "except_chunk"
  /\ attempts = max_retries
  /\ transient_only
  /\ i < Len(Chunks(transcript_file))
  /\ transcript_files # <<>>

\* C9: the takeaways of a written result are never empty, and a non-blank
\* response without the takeaways label is written with the response as its
\* summary and the not-found sentinel as its takeaways.
C9_FormatDegradation ==
  /\ \A n \in OutNames : Complete(output_folder, n) => output_folder[n].takeaways # <<>>
  /\ (pc \in {"open", "write"}
        /\ ~Contains(last_reply.text, TakeawaysLabel)
        /\ strip(last_reply.text) # <<>>) =>
       /\ result.summary = strip(last_reply.text)
       /\ result.takeaways = NoTakeaways

\* C10: every segment whose call succeeded in this run of the summarizer
\* has its complete output file, except the one being written; no remote
\* call is issued while a succeeded segment is still being written.
C10_WriteBeforeAdvance ==
  script = "summarizer" =>
    /\ \A n \in succeeded : n = inflight \/ Complete(output_folder, n)
    /\ pc = "call" => inflight = NoName

C10_Witness ==
  /\ pc = "call"
  /\ attempts >= 1
  /\ \E n \in succeeded : n # Current

\* the serial-prefixed outputs of source s at the start of the run
RenamedPartsOf(s) == {n \in SerialNames : n.base = s /\ Present(startdir, n)}

\* every segment of source s had a complete serial-prefixed output, and no
\* other output, when the run started
RenamedAtStart(s) ==
  /\ \A p \in 1..Len(Chunks(s)) :
       \E n \in RenamedPartsOf(s) : n.part = p /\ Complete(startdir, n)
  /\ \A n \in PartsOf(s) : ~Present(startdir, n)

\* C11: a run of the summarizer that starts when every segment of a source
\* has its output under a serial-prefixed name issues no remote call for
\* that source.
C11_LedgerMatchesRenamed ==
  (script = "summarizer" /\ run >= 1) =>
    \A s \in Sources : RenamedAtStart(s) => \A n \in PartsOf(s) : n \notin called

\* C12: an output file of the post generator, merged-final-post.md
\* included, that exists when a run starts has, at every later point of
\* that run, the content it had when the run started.
C12_DownstreamOutputUntouched ==
  script = "post" =>
    \A n \in PostNames : Present(startdir, n) => output_folder[n] = startdir[n]

\* C13: once a call of the summarizer for a segment is answered with HTTP
\* 400, no further remote call is issued for that request.
C13_BadRequestNotRetried ==
  [][(script = "summarizer" /\ last_reply.status = 400) => ~CallIssued]_vars

\* the segments joined in index order
RECURSIVE Concat(_)
Concat(segments) ==
  IF segments = <<>> THEN <<>> ELSE Head(segments) \o Concat(Tail(segments))

\* ceil(a / b)
CeilDiv(a, b) == (a + b - 1) \div b

\* C14: the segments chunk_text / split_content return, joined in index
\* order, are the input; their number is ceil(len(S)/M): none for the empty
\* input, and the input itself as the only segment when len(S) <= M.
C14_SplitterCoverage ==
  pc = "split_done" =>
    /\ Concat(chunks) = text
    /\ Len(chunks) = CeilDiv(Len(text), chunk_size)
    /\ (text = <<>> => chunks = <<>>)
    /\ ((text # <<>> /\ Len(text) <= chunk_size) => chunks = <<text>>)

C14_Witness ==
  /\ pc = "split_done"
  /\ script = "research"
  /\ Len(chunks) >= 2
  /\ Len(text) % chunk_size # 0

\* C15: every segment has between 1 and M characters, every segment but
\* the last has exactly M, and segment k is the characters at the 0-based
\* positions (k-1)*M .. min(k*M, len(S))-1 of the input.
C15_SplitterSizeBound ==
  pc = "split_done" =>
    \A k \in 1..Len(chunks) :
      /\ Len(chunks[k]) >= 1
      /\ Len(chunks[k]) <= chunk_size
      /\ (k < Len(chunks) => Len(chunks[k]) = chunk_size)
      /\ chunks[k] =
           [j \in 1..(Min(k * chunk_size, Len(text)) - (k - 1) * chunk_size) |->
              text[(k - 1) * chunk_size + j]]

C15_Witness ==
  /\ pc = "split_done"
  /\ script = "summarizer"
  /\ Len(chunks) >= 3
  /\ Len(chunks[Len(chunks)]) < chunk_size

C17_LinearBackoff ==
  transient_only =>
    \A k \in 1..Len(delays) : TotalDelay(delays[k]) = retry_delay * k

\* C18: a segment of the summarizer gets at most max_retries remote calls,
\* and a request that fails ends in one of two ways: the segment is skipped
\* after max_retries attempts, or the error is raised on to abort the batch.
C18_SegmentOutcome ==
  [][/\ attempts' <= max_retries
     /\ (script = "summarizer" /\ pc = "except_chunk" /\ exit' = "none") =>
          \/ attempts = max_retries /\ pc' = "chunk" /\ i' = i + 1
          \/ pc' = "except_file"]_vars

\* C18, termination: every run of the summarizer ends.
C18_RunTerminates == (pc # "idle") ~> (pc = "idle")

\* C19: when a source file cannot be read, the step that handles the error
\* ends the run with the error raised out of the driver, so that no further
\* source is processed in that run.
C19_InputErrorFatal ==
  [][(pc = "except_file" /\ exc = ReadError /\ exit' # "killed") =>
       (pc' = "idle" /\ exit' = "raised")]_vars

\* C20: the part check and the write are not atomic: an invocation whose
\* part check finds no file goes on to the remote call for the segment,
\* also while the other invocation is between its own check and the end of
\* its write of the same segment; so a segment can be sent and written by
\* both.
C20_CheckThenWriteNotAtomic ==
  [][/\ (/\ peer.pc = "chunk"
         /\ peer.i <= Len(Chunks(peer.transcript_file))
         /\ ~Present(output_folder, PeerCurrent)
         /\ peer' # peer) => peer'.pc = "call"
     /\ (/\ pc = "chunk"
         /\ i <= Len(Chunks(transcript_file))
         /\ ~Present(output_folder, Current)
         /\ pc' # pc) => pc' = "call"]_vars

\* both invocations called the endpoint for one segment and both wrote its
\* output file
C20_Witness ==
  \E n \in OutNames :
    /\ n \in called /\ n \in succeeded /\ n # inflight
    /\ n \in peer.called /\ n \in peer.wrote

\* C21: every remote call is followed, before the invoker goes on, by a
\* wait of at least request_delay, whether the call returned or raised; so a
\* call that is not the first of its run is issued at least request_delay
\* after the call before it was answered; before a retry the wait is
\* request_delay on top of the rate-limit wait and the backoff.
C21_ProactiveThrottle ==
  [][CallIssued =>
       /\ elapsed' >= request_delay
       /\ (called # {} => elapsed >= request_delay)
       /\ (delays' # delays =>
             elapsed' = request_delay + TotalDelay(delays'[Len(delays')]))]_vars

C21_Witness ==
  /\ Cardinality(called) >= 2
  /\ attempts = 2
  /\ last_reply.status = 429
  /\ pc \in {"call", "post_call"}
  /\ elapsed = request_delay + retry_delay + sleep_time(2)

\* the publisher's update request carries a sha that is no longer the
\* sha of the remote file
StaleHandle ==
  /\ publisher.pc = "update"
  /\ Present(repo, publisher.remote_path)
  /\ sha(repo[publisher.remote_path].content) # publisher.existing_sha

\* C22: when the update of an existing remote file fails because the sha
\* read earlier is stale, the next step of the publisher reads the file
\* again, to retry the update with the current sha.
C22_StaleHandleRereads ==
  [][(StaleHandle /\ publisher' # publisher) => publisher'.pc = "get"]_vars

\* the date field of a post: what follows "date:" and the blanks after it
\* on the front-matter line that starts with "date:"
DateField(content) ==
  LET lines == {k \in 1..Len(content) :
                  /\ content[k] = "date:"
                  /\ (k = 1 \/ content[k - 1] = "\n")
                  /\ match_at(content, "date:", k).found}
  IN  IF lines = {} THEN <<>>
      ELSE LET m == match_at(content, "date:", CHOOSE k \in lines : \A j \in lines : k <= j)
           IN  SubSeq(content, m.from, m.to)

\* C23: an update of a post that exists at its remote path leaves the date
\* field of the remote file as it was, whatever date the local file
\* carries; a post that does not exist remotely is created with the local
\* content.
C23_PublishPreservesDate ==
  [][/\ (publisher.pc = "update" /\ repo' # repo /\ publisher' # publisher) =>
          DateField(repo'[publisher.remote_path].content)
            = DateField(repo[publisher.remote_path].content)
     /\ (publisher.pc = "create" /\ repo' # repo) =>
          repo'[publisher.remote_path].content
            = extract_pure_content(publisher.file_info.content)]_vars

\* the individual posts in the output folder
IndividualPosts == {n \in PostNames : n.base # MergedPost /\ Present(output_folder, n)}

\* C24: when a run of the post generator has ended with more than one
\* individual post in the output folder, merged-final-post.md exists in the
\* output folder.
C24_MergedPostExists ==
  (script = "post" /\ pc = "idle" /\ exit = "returned" /\ Cardinality(IndividualPosts) > 1) =>
    Present(output_folder, PostName(MergedPost))

\* this step fetches the transcript of video k
Fetched(k) == transcriber'.fetches[k] = transcriber.fetches[k] + 1

\* C25: a video for which the transcript service has signalled that no
\* transcript is available is left as a legitimate empty result: it is not
\* pending any more and its transcript is not fetched again.
C25_NoTranscriptNotRetried ==
  [][\A k \in DOMAIN Videos :
       transcriber.answer[k] = "no_transcript" =>
         /\ transcriber.status[k] # "pending"
         /\ ~Fetched(k)]_vars

\* C26: process_all_youtube runs at most 4 rounds; a round fetches the
\* videos that were pending when it started, each once, and all of them by
\* its end; a video whose transcript is saved is never fetched again; no
\* round starts when no video is pending or when 4 rounds have run.
C26_RetryRounds ==
  [][/\ transcriber'.retry_round <= youtube_max_retries
     /\ \A k \in DOMAIN Videos :
          Fetched(k) =>
            /\ k \notin transcriber.saved
            /\ k \in transcriber.pending_at_start
            /\ k \notin transcriber.attempted
            /\ transcriber.retry_round < youtube_max_retries
     /\ (transcriber.pc = "video" /\ transcriber'.pc = "round") =>
          transcriber'.attempted = transcriber.pending_at_start
     /\ (transcriber.pc = "round"
           /\ (\/ \A k \in DOMAIN Videos : transcriber.status[k] # "pending"
               \/ transcriber.retry_round = youtube_max_retries)) =>
          transcriber'.pc \in {"round", "done"}]_vars

\* four rounds have run: one video was saved in the second, the other is
\* still pending at the end
C26_Witness ==
  /\ transcriber.pc = "done"
  /\ transcriber.retry_round = youtube_max_retries
  /\ \E k \in DOMAIN Videos : transcriber.status[k] = "pending" /\ transcriber.fetches[k] = 4
  /\ \E k \in DOMAIN Videos : k \in transcriber.saved /\ transcriber.fetches[k] = 2

\* the files of a folder handed to the rename stage
FilesIn(dir) == {n \in RenameNames : Present(dir, n)}

\* C27: after a run of rename_files the files of the folder carry the
\* serial prefixes 1..n, each exactly once, in ascending order of
\* (main name, numeric part number).
C27_SerialNumbering ==
  renamer.runs >= 1 =>
    LET files == FilesIn(renamer.folder)
    IN  /\ \A k \in 1..Cardinality(files) :
             Cardinality({f \in files : serial_of(f) = k}) = 1
        /\ \A f, g \in files : sort_before(f, g) => serial_of(f) < serial_of(g)

\* C28: a run of rename_files leaves as many files in the folder as it
\* found, also when names carry a serial prefix already or become equal
\* once the prefix is stripped.
C28_RenameKeepsEveryFile ==
  renamer.runs >= 1 =>
    Cardinality(FilesIn(renamer.folder)) = Cardinality(FilesIn(renamer.start))

\* C29: a second run of rename_files on a folder that the first run left
\* with all its files renames nothing: every file keeps the name the first
\* run gave it.
C29_RenameIdempotent ==
  (/\ renamer.runs = 2
   /\ Cardinality(FilesIn(renamer.start)) = Cardinality(FilesIn(renamer.first))
   /\ Cardinality(FilesIn(renamer.folder)) = Cardinality(FilesIn(renamer.first))) =>
    renamer.folder = renamer.start

\* the group a file is in, and its position there
GroupOf(f) ==
  CHOOSE b \in DOMAIN grouper.file_groups :
    \E k \in DOMAIN grouper.file_groups[b] : grouper.file_groups[b][k] = f

PositionOf(f) ==
  CHOOSE k \in DOMAIN grouper.file_groups[GroupOf(f)] :
    grouper.file_groups[GroupOf(f)][k] = f

\* C30: the post generator decodes what the earlier stages encode: for the
\* file of segment n of source b, with or without a serial prefix,
\* get_base_name gives b and get_part_number gives n; so the parts of one
\* source, and only those, are in one group, ordered by n
C30_NameRoundTrip ==
  grouper.pc = "grouped" =>
    /\ \A w \in grouper.written :
         /\ get_base_name(w.filename) = w.b
         /\ get_part_number(w.filename) = w.n
    /\ \A w, v \in grouper.written :
         /\ (GroupOf(w.filename) = GroupOf(v.filename)) <=> (w.b = v.b)
         /\ (w.b = v.b /\ w.n < v.n) => PositionOf(w.filename) < PositionOf(v.filename)

\* C31: process_all_transcripts reports a source as successfully processed
\* (the return of process_transcript, followed by complete_item with
\* success=True at line 302) only when every segment of that source has an
\* output file at that moment
C31_SuccessMeansAllSegments ==
  [][(script = "summarizer" /\ pc = "chunk" /\ pc' = "next_file") =>
       \A k \in 1..Len(Chunks(transcript_file)) :
         Present(output_folder', OutName(transcript_file, k))]_vars

\* C32: every output file is evidence of a successful remote call: the file
\* of a (source, segment) is written only when the remote call for that
\* segment returned a response, so a segment whose call failed on every
\* attempt leaves no output file
C32_OutputMeansResponse ==
  \A f \in assistant.output_dir :
    /\ <<f.source, f.segment>> \in assistant.responded
    /\ <<f.source, f.segment>> \notin assistant.exhausted

\* C33: the counters of the progress tracker stay consistent at every point
\* of a run: successful + failed <= current_item <= total_items, also in
\* the retry rounds of the YouTube pipeline
C33_TrackerConsistent ==
  transcriber.pc # "idle" =>
    LET t == transcriber.progress_tracker
    IN  /\ t.successful + t.failed <= t.current_item
        /\ t.current_item <= t.total_items

\* C34: parse_linkedin_post is total: for every response text it returns a
\* mapping that holds all five fields, so that format_jekyll_post never
\* fails on a missing field
C34_ParseTotal ==
  /\ parser.pc # "raised"
  /\ parser.pc \in {"parsed", "formatted"} =>
       /\ parser.sections.kind = "object"
       /\ required_fields \subseteq parser.sections.fields

\* C35: the four operations reach the server only between a successful
\* initialize() and close(); before initialize() or after close() they
\* raise RuntimeError('Session not initialized') without a call on the
\* session; close() without a session does nothing
C35_SessionLifecycle ==
  /\ (client.last_call \in Operations /\ ~client.open) =>
       (client.ended = "RuntimeError" /\ ~client.delegated)
  /\ (client.last_call \in Operations /\ client.open) => client.delegated
  /\ (client.last_call = "close" /\ ~client.had_session) => client.ended = "nothing"

====
